---- MODULE Spec2Model ----
(***************************************************************************)
(* A model of aprimc/hashmap: the open-addressing Map (map.go) and Set,   *)
(* with Int keys hashed by hash64bits under a seed drawn at start.         *)
(*                                                                         *)
(* Word width.  The program's hashes are uint64 and fullBit is 1 << 63.    *)
(* The model keeps the same bit structure in a word of WordBits bits: a    *)
(* hash is a value below 2^WordBits and fullBit is the word's top bit.     *)
(* Slot arrays are sequences; Go index i is position i + 1.  A nil slice   *)
(* is the empty sequence.                                                  *)
(***************************************************************************)
EXTENDS Integers, Sequences, FiniteSets, TLC

\* ------------------------------------------------------------------ bounds
\* the Int keys 0 .. NumInts-1, and the key 256
NumInts == 13
\* the Int keys 0 .. NumSmall-1 are those the second of two Sets draws from
NumSmall == 8
\* the width of a hash word
WordBits == 8

\* the calls that change a container or its copy between two copies
MaxAfterCopy == 2

\* ------------------------------------------------------- program constants
initialCapacity == 16
fullBit == 2 ^ (WordBits - 1)
WordMod == 2 ^ WordBits

\* --------------------------------------------------------- bit operations
RECURSIVE BitAndBits(_, _)
BitAndBits(a, b) ==
    IF a = 0 \/ b = 0 THEN 0
    ELSE (IF a % 2 = 1 /\ b % 2 = 1 THEN 1 ELSE 0) + 2 * BitAndBits(a \div 2, b \div 2)

\* a & b. Against a mask 2^n - 1, the low n bits of a are a modulo 2^n.
LowMasks == {2 ^ n - 1 : n \in 0 .. WordBits}
BitAnd(a, b) == IF b \in LowMasks THEN a % (b + 1) ELSE BitAndBits(a, b)

RECURSIVE BitOr(_, _)
BitOr(a, b) ==
    IF a = 0 THEN b
    ELSE IF b = 0 THEN a
    ELSE (IF a % 2 = 1 \/ b % 2 = 1 THEN 1 ELSE 0) + 2 * BitOr(a \div 2, b \div 2)

RECURSIVE BitXor(_, _)
BitXor(a, b) ==
    IF a = 0 THEN b
    ELSE IF b = 0 THEN a
    ELSE ((a + b) % 2) + 2 * BitXor(a \div 2, b \div 2)

\* ------------------------------------------------------------------- keys
\* Int keys: 0, 1, 2 ... and 256, whose low byte is that of 0.
Keys == (0 .. (NumInts - 1)) \cup {256}

\* Int.Equals
Int_Equals(i, other) == i = other

\* byte(u << shift): the low byte of u shifted left. A shift by 8 or more
\* leaves no bit of u in the low byte.
ShlByte(u, shift) == IF shift >= 8 THEN 0 ELSE (u * (2 ^ shift)) % 256

\* the eight bytes hash64bits writes to the hasher
hash64bits_bytes(u) ==
    << ShlByte(u, 0), ShlByte(u, 8), ShlByte(u, 16), ShlByte(u, 24),
       ShlByte(u, 32), ShlByte(u, 40), ShlByte(u, 48), ShlByte(u, 56) >>

\* the four bytes hash32bits and the two bytes hash16bits write
hash32bits_bytes(u) ==
    << ShlByte(u, 0), ShlByte(u, 8), ShlByte(u, 16), ShlByte(u, 24) >>
hash16bits_bytes(u) == << ShlByte(u, 0), ShlByte(u, 8) >>

\* var seed maphash.Seed = maphash.MakeSeed(): the seed is drawn when the
\* process starts and stays; it is the index of a row of SeedTables
VARIABLE seed

\* maphash under a seed: a function of the bytes written, one per seed. A row
\* of SeedTables is the seed's effect on the first byte.
\* Row 1: 14 and 142 differ in the top bit only, so the keys 0 and 1 have one
\* tagged hash; 14, 142 and 31, 20 and 4 share a home slot or a cluster at
\* capacity 16; 31 is the last slot at capacity 32; 20, 24 and 26 move when
\* the capacity changes.
\* Row 2: the tagged hashes of different low bytes are all different and
\* spread over the array; 23 and 87, 5 and 69, 28 and 92 share a home slot at
\* either capacity, and 100 (the keys 0 and 256) is the slot before 5's.
SeedTables ==
    << << 14, 142, 31, 3, 4, 20, 6, 7, 24, 9, 26, 11, 12, 1, 5, 13 >>,
       << 100, 41, 82, 23, 64, 5, 46, 87, 28, 69, 10, 51, 92, 33, 74, 15 >> >>

Seeds == DOMAIN SeedTables

RECURSIVE SumBytes(_, _)
SumBytes(bs, i) ==
    IF i > Len(bs) THEN 0 ELSE (2 * i - 1) * bs[i] + SumBytes(bs, i + 1)

\* h.Sum64() after the bytes bs were written under the seed sd
Sum64(sd, bs) ==
    LET SeedTable == SeedTables[sd] IN
    (SeedTable[(SumBytes(bs, 1) % Len(SeedTable)) + 1]
        + 37 * (SumBytes(bs, 1) \div Len(SeedTable))) % WordMod

hash64bits(u) == Sum64(seed, hash64bits_bytes(u))

\* Int.Hash, tabulated once for the seeds and keys of the model
HashOfKey == [sd \in Seeds |-> [k \in Keys |-> Sum64(sd, hash64bits_bytes(k))]]
Int_Hash(i) == HashOfKey[seed][i]

\* hash1 := key.Hash() | fullBit, tabulated in the same way
Hash1OfKey == [sd \in Seeds |-> [k \in Keys |-> BitOr(HashOfKey[sd][k], fullBit)]]

\* var emptySetHash uint64 = Int(0).Hash()
emptySetHash == Int_Hash(0)

\* ====================================================================== Map
\* mapEntry{}: the zero entry, an EMPTY slot
ZeroMapEntry == [hash1 |-> 0, key |-> 0, value |-> 0]

\* Map[K, V]{}: the zero value
ZeroMap == [entries |-> << >>, size |-> 0]

\* the outcome of an operation that indexed a slot array of capacity 0
\* (index out of range): no Map value has a negative size
PanicMap == [entries |-> << >>, size |-> -1]

\* make([]mapEntry[K, V], cap)
MakeMapEntries(cap) == [i \in 1 .. cap |-> ZeroMapEntry]

Map_init(m) == [m EXCEPT !.entries = MakeMapEntries(initialCapacity)]

Map_Size(m) == m.size

\* the probing loop of Get, from index
RECURSIVE Map_Get_loop(_, _, _, _)
Map_Get_loop(m, hash1, key, index) ==
    LET entry == m.entries[index + 1] IN
    IF entry.hash1 = 0 THEN [value |-> 0, found |-> FALSE, panic |-> FALSE]
    ELSE IF entry.hash1 = hash1 /\ Int_Equals(entry.key, key)
         THEN [value |-> entry.value, found |-> TRUE, panic |-> FALSE]
         ELSE Map_Get_loop(m, hash1, key, BitAnd(index + 1, Len(m.entries) - 1))

Map_Get(m, key) ==
    IF m.size = 0 THEN [value |-> 0, found |-> FALSE, panic |-> FALSE]
    ELSE IF Len(m.entries) = 0 THEN [value |-> 0, found |-> FALSE, panic |-> TRUE]
    ELSE LET hash1 == BitOr(Int_Hash(key), fullBit) IN
         Map_Get_loop(m, hash1, key, BitAnd(hash1, Len(m.entries) - 1))

\* the probing loop of putHash1: the index it stops at, and whether the slot
\* there holds the key
RECURSIVE Map_putHash1_loop(_, _, _, _)
Map_putHash1_loop(m, hash1, key, index) ==
    LET entry == m.entries[index + 1] IN
    IF entry.hash1 = 0 THEN [index |-> index, found |-> FALSE]
    ELSE IF entry.hash1 = hash1 /\ Int_Equals(entry.key, key)
         THEN [index |-> index, found |-> TRUE]
         ELSE Map_putHash1_loop(m, hash1, key, BitAnd(index + 1, Len(m.entries) - 1))

RECURSIVE Map_putHash1(_, _, _, _)
RECURSIVE Map_resize(_, _)
RECURSIVE Map_resize_loop(_, _, _)

\* a putHash1 that counts a key the array already holds once more
Map_putHash1_recount(m, hash1, key, value) ==
    IF Len(m.entries) = 0 THEN PanicMap
    ELSE
    LET at == Map_putHash1_loop(m, hash1, key, BitAnd(hash1, Len(m.entries) - 1)) IN
    LET m1 == [entries |-> [m.entries EXCEPT ![at.index + 1] =
                               [hash1 |-> hash1, key |-> key, value |-> value]],
               size |-> m.size + 1] IN
    IF m1.size > (3 * Len(m1.entries)) \div 4
    THEN Map_resize(m1, Len(m1.entries) * 2)
    ELSE m1

\* a putHash1 that doubles the array when it is more than a quarter full
Map_putHash1_early(m, hash1, key, value) ==
    IF Len(m.entries) = 0 THEN PanicMap
    ELSE
    LET at == Map_putHash1_loop(m, hash1, key, BitAnd(hash1, Len(m.entries) - 1)) IN
    IF at.found THEN m
    ELSE LET m1 == [entries |-> [m.entries EXCEPT ![at.index + 1] =
                                    [hash1 |-> hash1, key |-> key, value |-> value]],
                    size |-> m.size + 1] IN
         IF m1.size > Len(m1.entries) \div 4
         THEN Map_resize(m1, Len(m1.entries) * 2)
         ELSE m1

Map_putHash1(m, hash1, key, value) ==
    IF Len(m.entries) = 0 THEN PanicMap
    ELSE
    LET at == Map_putHash1_loop(m, hash1, key, BitAnd(hash1, Len(m.entries) - 1)) IN
    IF at.found
    THEN \* entry is a copy of the slot: entry.value = value leaves the array as it was
         m
    ELSE LET m1 == [entries |-> [m.entries EXCEPT ![at.index + 1] =
                                    [hash1 |-> hash1, key |-> key, value |-> value]],
                    size |-> m.size + 1] IN
         IF m1.size > (3 * Len(m1.entries)) \div 4
         THEN Map_resize(m1, Len(m1.entries) * 2)
         ELSE m1

\* for _, entry := range entries, from position i of the old array
Map_resize_loop(m, entries, i) ==
    IF i > Len(entries) THEN m
    ELSE IF entries[i].hash1 # 0
         THEN Map_resize_loop(
                  Map_putHash1(m, entries[i].hash1, entries[i].key, entries[i].value),
                  entries, i + 1)
         ELSE Map_resize_loop(m, entries, i + 1)

Map_resize(m, cap) ==
    Map_resize_loop([entries |-> MakeMapEntries(cap), size |-> 0], m.entries, 1)

Map_Put(m, key, value) ==
    LET m1 == IF m.entries = << >> THEN Map_init(m) ELSE m
        hash1 == BitOr(Int_Hash(key), fullBit)
    IN  Map_putHash1(m1, hash1, key, value)

\* the outer probing loop of Remove: the index of the key's slot, -1 when the
\* probe ends at an EMPTY slot
RECURSIVE Map_Remove_loop(_, _, _, _)
Map_Remove_loop(m, hash1, key, index) ==
    LET entry == m.entries[index + 1] IN
    IF entry.hash1 = 0 THEN -1
    ELSE IF entry.hash1 = hash1 /\ Int_Equals(entry.key, key) THEN index
         ELSE Map_Remove_loop(m, hash1, key, BitAnd(index + 1, Len(m.entries) - 1))

\* the inner loop of Remove: every slot of the cluster after the freed one is
\* cleared and put again
\* a Remove that leaves the cluster after the freed slot as it is
Map_Remove_norepair(m, index) == m

\* a repair loop that stops at the end of the array instead of going on at
\* its start
RECURSIVE Map_Remove_repair_nowrap(_, _)
Map_Remove_repair_nowrap(m, index) ==
    IF Len(m.entries) = 0 THEN PanicMap
    ELSE IF m.entries[index + 1].hash1 = 0 THEN m
    ELSE LET entry == m.entries[index + 1]
             m1 == [entries |-> [m.entries EXCEPT ![index + 1] = ZeroMapEntry],
                    size |-> m.size - 1]
             m2 == Map_putHash1(m1, entry.hash1, entry.key, entry.value)
         IN  IF index + 1 >= Len(m2.entries) THEN m2
             ELSE Map_Remove_repair_nowrap(m2, index + 1)

RECURSIVE Map_Remove_repair(_, _)
Map_Remove_repair(m, index) ==
    IF Len(m.entries) = 0 THEN PanicMap
    ELSE IF m.entries[index + 1].hash1 = 0 THEN m
    ELSE LET entry == m.entries[index + 1]
             m1 == [entries |-> [m.entries EXCEPT ![index + 1] = ZeroMapEntry],
                    size |-> m.size - 1]
             m2 == Map_putHash1(m1, entry.hash1, entry.key, entry.value)
         IN  Map_Remove_repair(m2, BitAnd(index + 1, Len(m2.entries) - 1))

Map_Remove(m, key) ==
    IF m.size = 0 THEN m
    ELSE IF Len(m.entries) = 0 THEN PanicMap
    ELSE
    LET hash1 == BitOr(Int_Hash(key), fullBit)
        index == Map_Remove_loop(m, hash1, key, BitAnd(hash1, Len(m.entries) - 1))
    IN  IF index = -1 THEN m
        ELSE LET m1 == [entries |-> [m.entries EXCEPT ![index + 1] = ZeroMapEntry],
                        size |-> m.size - 1] IN
             IF Len(m1.entries) > initialCapacity /\ m1.size < Len(m1.entries) \div 4
             THEN Map_resize(m1, Len(m1.entries) \div 2)
             ELSE Map_Remove_repair(m1, BitAnd(index + 1, Len(m1.entries) - 1))

\* a ForEach that remembers the visitor's error and goes on to the end
RECURSIVE Map_ForEach_loop_goon(_, _, _, _)
Map_ForEach_loop_goon(entries, errKeys, i, visited) ==
    IF i > Len(entries) THEN [visited |-> visited, err |-> -1]
    ELSE IF entries[i].hash1 # 0
         THEN LET rest == Map_ForEach_loop_goon(entries, errKeys, i + 1,
                                                Append(visited, entries[i].key)) IN
              IF entries[i].key \in errKeys /\ rest.err = -1
              THEN [visited |-> rest.visited, err |-> entries[i].key]
              ELSE rest
         ELSE Map_ForEach_loop_goon(entries, errKeys, i + 1, visited)

\* the steps of the inner loop of Remove from index: one "repair" for every
\* slot it clears and puts again
RECURSIVE Map_Remove_repair_steps(_, _)
Map_Remove_repair_steps(m, index) ==
    IF Len(m.entries) = 0 \/ m.entries[index + 1].hash1 = 0 THEN << >>
    ELSE LET entry == m.entries[index + 1]
             m1 == [entries |-> [m.entries EXCEPT ![index + 1] = ZeroMapEntry],
                    size |-> m.size - 1]
             m2 == Map_putHash1(m1, entry.hash1, entry.key, entry.value)
         IN  << "repair" >> \o Map_Remove_repair_steps(m2, BitAnd(index + 1, Len(m2.entries) - 1))

\* the steps Remove takes, in order: "clear" of the key's slot, then "resize"
\* and return, or the "repair" steps of the inner loop
Map_Remove_steps(m, key) ==
    IF m.size = 0 \/ Len(m.entries) = 0 THEN << >>
    ELSE
    LET hash1 == BitOr(Int_Hash(key), fullBit)
        index == Map_Remove_loop(m, hash1, key, BitAnd(hash1, Len(m.entries) - 1))
    IN  IF index = -1 THEN << >>
        ELSE LET m1 == [entries |-> [m.entries EXCEPT ![index + 1] = ZeroMapEntry],
                        size |-> m.size - 1] IN
             IF Len(m1.entries) > initialCapacity /\ m1.size < Len(m1.entries) \div 4
             THEN << "clear", "resize" >>
             ELSE << "clear" >>
                      \o Map_Remove_repair_steps(m1, BitAnd(index + 1, Len(m1.entries) - 1))

\* ForEach with a visitor that fails on the keys of errKeys: the keys the
\* visitor was called on, in call order, and the error returned (-1 for nil,
\* else the key the visitor failed on)
RECURSIVE Map_ForEach_loop(_, _, _, _)
Map_ForEach_loop(entries, errKeys, i, visited) ==
    IF i > Len(entries) THEN [visited |-> visited, err |-> -1]
    ELSE IF entries[i].hash1 # 0
         THEN IF entries[i].key \in errKeys
              THEN [visited |-> Append(visited, entries[i].key), err |-> entries[i].key]
              ELSE Map_ForEach_loop(entries, errKeys, i + 1, Append(visited, entries[i].key))
         ELSE Map_ForEach_loop(entries, errKeys, i + 1, visited)

Map_ForEach(m, errKeys) == Map_ForEach_loop(m.entries, errKeys, 1, << >>)

Map_Copy(m) ==
    IF m.size = 0 THEN ZeroMap
    ELSE [entries |-> [i \in 1 .. Len(m.entries) |-> m.entries[i]], size |-> m.size]

\* a Copy whose entries field is the array of the original
Map_Copy_array_shared(m, array, fresh) == IF m.size = 0 THEN 0 ELSE array

\* the address of the slot array of the Map that Copy returns, when the slot
\* array of m is at the address array, and make gives the address fresh: nil
\* (0) in the &Map[K, V]{} returned for an empty m, else what make gave
Map_Copy_array(m, array, fresh) == IF m.size = 0 THEN 0 ELSE fresh

\* the slot array of m as putHash1 leaves it before it checks the threshold:
\* with the entry stored, if the key was not there
Map_Put_stored(m, key, value) ==
    IF Len(m.entries) = 0 THEN m.entries
    ELSE LET hash1 == BitOr(Int_Hash(key), fullBit)
             at == Map_putHash1_loop(m, hash1, key, BitAnd(hash1, Len(m.entries) - 1))
         IN  IF at.found THEN m.entries
             ELSE [m.entries EXCEPT ![at.index + 1] =
                      [hash1 |-> hash1, key |-> key, value |-> value]]

\* the slot array of m as Remove leaves it before it checks the threshold:
\* with the slot of the key cleared, if the key was there
Map_Remove_cleared(m, key) ==
    IF m.size = 0 \/ Len(m.entries) = 0 THEN m.entries
    ELSE LET hash1 == BitOr(Int_Hash(key), fullBit)
             index == Map_Remove_loop(m, hash1, key, BitAnd(hash1, Len(m.entries) - 1))
         IN  IF index = -1 THEN m.entries
             ELSE [m.entries EXCEPT ![index + 1] = ZeroMapEntry]

\* ====================================================================== Set
\* setEntry{}: the zero entry, an EMPTY slot
ZeroSetEntry == [hash1 |-> 0, key |-> 0]

\* Set[K]{}: the zero value
ZeroSet == [entries |-> << >>, size |-> 0, hash |-> 0]

\* the outcome of an operation that indexed a slot array of capacity 0
PanicSet == [entries |-> << >>, size |-> -1, hash |-> 0]

\* what a query returns: its boolean result, or a panic (index out of range)
Returns(b) == [result |-> b, panic |-> FALSE]
Panics == [result |-> FALSE, panic |-> TRUE]

\* make([]setEntry[K], cap)
MakeSetEntries(cap) == [i \in 1 .. cap |-> ZeroSetEntry]

Set_init(s) == [s EXCEPT !.entries = MakeSetEntries(initialCapacity), !.hash = emptySetHash]

Set_Size(s) == s.size

RECURSIVE Set_containsHash1Key_loop(_, _, _, _)
Set_containsHash1Key_loop(s, hash1, key, index) ==
    LET entry == s.entries[index + 1] IN
    IF entry.hash1 = 0 THEN FALSE
    ELSE IF entry.hash1 = hash1 /\ Int_Equals(entry.key, key) THEN TRUE
         ELSE Set_containsHash1Key_loop(s, hash1, key, BitAnd(index + 1, Len(s.entries) - 1))

Set_containsHash1Key(s, hash1, key) ==
    IF Len(s.entries) = 0 THEN Panics
    ELSE Returns(Set_containsHash1Key_loop(s, hash1, key, BitAnd(hash1, Len(s.entries) - 1)))

\* a Contains without the size == 0 shortcut
Set_Contains_noguard(s, key) ==
    Set_containsHash1Key(s, BitOr(Int_Hash(key), fullBit), key)

Set_Contains(s, key) ==
    IF s.size = 0 THEN Returns(FALSE)
    ELSE Set_containsHash1Key(s, BitOr(Int_Hash(key), fullBit), key)

\* the probing loop of addHash1Key: the index it stops at, and whether the
\* slot there holds the key
RECURSIVE Set_addHash1Key_loop(_, _, _, _)
Set_addHash1Key_loop(s, hash1, key, index) ==
    LET entry == s.entries[index + 1] IN
    IF entry.hash1 = 0 THEN [index |-> index, found |-> FALSE]
    ELSE IF entry.hash1 = hash1 /\ Int_Equals(entry.key, key)
         THEN [index |-> index, found |-> TRUE]
         ELSE Set_addHash1Key_loop(s, hash1, key, BitAnd(index + 1, Len(s.entries) - 1))

RECURSIVE Set_addHash1Key(_, _, _)
RECURSIVE Set_resize(_, _)
RECURSIVE Set_resize_loop(_, _, _)

Set_addHash1Key(s0, hash1, key) ==
    IF s0.size < 0 THEN PanicSet
    ELSE
    LET s == IF s0.entries = << >> THEN Set_init(s0) ELSE s0 IN
    IF Len(s.entries) = 0 THEN PanicSet
    ELSE
    LET at == Set_addHash1Key_loop(s, hash1, key, BitAnd(hash1, Len(s.entries) - 1)) IN
    IF at.found THEN s
    ELSE LET s1 == [entries |-> [s.entries EXCEPT ![at.index + 1] =
                                    [hash1 |-> hash1, key |-> key]],
                    size |-> s.size + 1,
                    hash |-> BitXor(s.hash, hash1)] IN
         IF s1.size > (3 * Len(s1.entries)) \div 4
         THEN Set_resize(s1, Len(s1.entries) * 2)
         ELSE s1

\* for _, entry := range entries, from position i of the old array
Set_resize_loop(s, entries, i) ==
    IF i > Len(entries) THEN s
    ELSE IF entries[i].hash1 # 0
         THEN Set_resize_loop(Set_addHash1Key(s, entries[i].hash1, entries[i].key),
                              entries, i + 1)
         ELSE Set_resize_loop(s, entries, i + 1)

\* a resize that starts the hash of the rebuilt Set from 0
Set_resize_zerohash(s, cap) ==
    Set_resize_loop([entries |-> MakeSetEntries(cap), size |-> 0, hash |-> 0],
                    s.entries, 1)

Set_resize(s, cap) ==
    Set_resize_loop([entries |-> MakeSetEntries(cap), size |-> 0, hash |-> emptySetHash],
                    s.entries, 1)

Set_Add(s, key) == Set_addHash1Key(s, BitOr(Int_Hash(key), fullBit), key)

\* the outer probing loop of removeHash1Key: the index of the key's slot, -1
\* when the probe ends at an EMPTY slot
RECURSIVE Set_removeHash1Key_loop(_, _, _, _)
Set_removeHash1Key_loop(s, hash1, key, index) ==
    LET entry == s.entries[index + 1] IN
    IF entry.hash1 = 0 THEN -1
    ELSE IF entry.hash1 = hash1 /\ Int_Equals(entry.key, key) THEN index
         ELSE Set_removeHash1Key_loop(s, hash1, key, BitAnd(index + 1, Len(s.entries) - 1))

\* a removeHash1Key that leaves the cluster after the freed slot as it is
Set_removeHash1Key_norepair(s, index) == s

\* a repair loop that clears a slot without taking its hash out of the Set's
RECURSIVE Set_removeHash1Key_repair_keephash(_, _)
Set_removeHash1Key_repair_keephash(s, index) ==
    IF Len(s.entries) = 0 THEN PanicSet
    ELSE IF s.entries[index + 1].hash1 = 0 THEN s
    ELSE LET entry == s.entries[index + 1]
             s1 == [entries |-> [s.entries EXCEPT ![index + 1] = ZeroSetEntry],
                    size |-> s.size - 1,
                    hash |-> s.hash]
             s2 == Set_addHash1Key(s1, entry.hash1, entry.key)
         IN  Set_removeHash1Key_repair_keephash(s2, BitAnd(index + 1, Len(s2.entries) - 1))

\* the inner loop of removeHash1Key
RECURSIVE Set_removeHash1Key_repair(_, _)
Set_removeHash1Key_repair(s, index) ==
    IF Len(s.entries) = 0 THEN PanicSet
    ELSE IF s.entries[index + 1].hash1 = 0 THEN s
    ELSE LET entry == s.entries[index + 1]
             s1 == [entries |-> [s.entries EXCEPT ![index + 1] = ZeroSetEntry],
                    size |-> s.size - 1,
                    hash |-> BitXor(s.hash, entry.hash1)]
             s2 == Set_addHash1Key(s1, entry.hash1, entry.key)
         IN  Set_removeHash1Key_repair(s2, BitAnd(index + 1, Len(s2.entries) - 1))

\* a removeHash1Key that never halves the array
Set_removeHash1Key_noshrink(s, hash1, key) ==
    IF Len(s.entries) = 0 THEN PanicSet
    ELSE
    LET index == Set_removeHash1Key_loop(s, hash1, key, BitAnd(hash1, Len(s.entries) - 1)) IN
    IF index = -1 THEN s
    ELSE LET s1 == [entries |-> [s.entries EXCEPT ![index + 1] = ZeroSetEntry],
                    size |-> s.size - 1,
                    hash |-> BitXor(s.hash, hash1)]
         IN  Set_removeHash1Key_repair(s1, BitAnd(index + 1, Len(s1.entries) - 1))

Set_removeHash1Key(s, hash1, key) ==
    IF Len(s.entries) = 0 THEN PanicSet
    ELSE
    LET index == Set_removeHash1Key_loop(s, hash1, key, BitAnd(hash1, Len(s.entries) - 1)) IN
    IF index = -1 THEN s
    ELSE LET s1 == [entries |-> [s.entries EXCEPT ![index + 1] = ZeroSetEntry],
                    size |-> s.size - 1,
                    hash |-> BitXor(s.hash, hash1)]
             \* the shrink does not return: the repair loop runs on the rebuilt array
             s2 == IF Len(s1.entries) > initialCapacity /\ s1.size < Len(s1.entries) \div 4
                   THEN Set_resize(s1, Len(s1.entries) \div 2)
                   ELSE s1
         IN  Set_removeHash1Key_repair(s2, BitAnd(index + 1, Len(s2.entries) - 1))

Set_Remove(s, key) ==
    IF s.size = 0 THEN s
    ELSE Set_removeHash1Key(s, BitOr(Int_Hash(key), fullBit), key)

\* a ForEach that takes the first EMPTY slot for the end of the entries
RECURSIVE Set_ForEach_loop_stop(_, _, _, _)
Set_ForEach_loop_stop(entries, errKeys, i, visited) ==
    IF i > Len(entries) THEN [visited |-> visited, err |-> -1]
    ELSE IF entries[i].hash1 # 0
         THEN IF entries[i].key \in errKeys
              THEN [visited |-> Append(visited, entries[i].key), err |-> entries[i].key]
              ELSE Set_ForEach_loop_stop(entries, errKeys, i + 1,
                                         Append(visited, entries[i].key))
         ELSE [visited |-> visited, err |-> -1]

\* the steps of the inner loop of removeHash1Key from index: one "repair" for
\* every slot it clears and adds again
RECURSIVE Set_removeHash1Key_repair_steps(_, _)
Set_removeHash1Key_repair_steps(s, index) ==
    IF Len(s.entries) = 0 \/ s.entries[index + 1].hash1 = 0 THEN << >>
    ELSE LET entry == s.entries[index + 1]
             s1 == [entries |-> [s.entries EXCEPT ![index + 1] = ZeroSetEntry],
                    size |-> s.size - 1,
                    hash |-> BitXor(s.hash, entry.hash1)]
             s2 == Set_addHash1Key(s1, entry.hash1, entry.key)
         IN  << "repair" >>
                 \o Set_removeHash1Key_repair_steps(s2, BitAnd(index + 1, Len(s2.entries) - 1))

\* the steps removeHash1Key takes, in order: "clear" of the key's slot, a
\* "resize" when the shrink threshold is crossed, and then, in either case,
\* the "repair" steps of the inner loop
Set_removeHash1Key_steps(s, hash1, key) ==
    IF Len(s.entries) = 0 THEN << >>
    ELSE
    LET index == Set_removeHash1Key_loop(s, hash1, key, BitAnd(hash1, Len(s.entries) - 1)) IN
    IF index = -1 THEN << >>
    ELSE LET s1 == [entries |-> [s.entries EXCEPT ![index + 1] = ZeroSetEntry],
                    size |-> s.size - 1,
                    hash |-> BitXor(s.hash, hash1)]
             shrinks == Len(s1.entries) > initialCapacity /\ s1.size < Len(s1.entries) \div 4
             s2 == IF shrinks THEN Set_resize(s1, Len(s1.entries) \div 2) ELSE s1
         IN  << "clear" >> \o (IF shrinks THEN << "resize" >> ELSE << >>)
                 \o Set_removeHash1Key_repair_steps(s2, BitAnd(index + 1, Len(s2.entries) - 1))

\* the steps Remove takes
Set_Remove_steps(s, key) ==
    IF s.size = 0 THEN << >>
    ELSE Set_removeHash1Key_steps(s, BitOr(Int_Hash(key), fullBit), key)

\* ForEach with a visitor that fails on the keys of errKeys
RECURSIVE Set_ForEach_loop(_, _, _, _)
Set_ForEach_loop(entries, errKeys, i, visited) ==
    IF i > Len(entries) THEN [visited |-> visited, err |-> -1]
    ELSE IF entries[i].hash1 # 0
         THEN IF entries[i].key \in errKeys
              THEN [visited |-> Append(visited, entries[i].key), err |-> entries[i].key]
              ELSE Set_ForEach_loop(entries, errKeys, i + 1, Append(visited, entries[i].key))
         ELSE Set_ForEach_loop(entries, errKeys, i + 1, visited)

Set_ForEach(s, errKeys) == Set_ForEach_loop(s.entries, errKeys, 1, << >>)

Set_Copy(s) ==
    IF s.size = 0 THEN ZeroSet
    ELSE [entries |-> [i \in 1 .. Len(s.entries) |-> s.entries[i]],
          size |-> s.size, hash |-> s.hash]

Set_Hash(s) == IF s.size = 0 THEN emptySetHash ELSE s.hash

\* for _, entry := range s.entries: does t hold every live entry from i on
RECURSIVE Set_Equals_loop(_, _, _)
Set_Equals_loop(s, t, i) ==
    IF i > Len(s.entries) THEN Returns(TRUE)
    ELSE IF s.entries[i].hash1 # 0
         THEN LET c == Set_containsHash1Key(t, s.entries[i].hash1, s.entries[i].key) IN
              IF c.panic THEN Panics
              ELSE IF ~c.result THEN Returns(FALSE)
              ELSE Set_Equals_loop(s, t, i + 1)
         ELSE Set_Equals_loop(s, t, i + 1)

\* an Equals that takes equal sizes and equal hashes for equal contents
Set_Equals_byhash(s, t) ==
    IF s.size # t.size THEN Returns(FALSE)
    ELSE IF s.size = 0 THEN Returns(TRUE)
    ELSE Returns(Set_Hash(s) = Set_Hash(t))

\* if len(s.entries) > len(t.entries) { s, t = t, s }: the operand the loop of
\* Equals scans and the operand it queries
Set_Equals_operands(s, t) ==
    IF Len(s.entries) > Len(t.entries) THEN [scan |-> t, query |-> s]
    ELSE [scan |-> s, query |-> t]

Set_Equals(s, t) ==
    IF s.size # t.size THEN Returns(FALSE)
    ELSE IF s.size = 0 THEN Returns(TRUE)
    ELSE IF Set_Hash(s) # Set_Hash(t) THEN Returns(FALSE)
    ELSE LET o == Set_Equals_operands(s, t) IN
         Set_Equals_loop(o.scan, o.query, 1)

\* an IsSubset that takes a Set of no more keys for a subset
Set_IsSubset_bysize(s, t) == Returns(s.size <= t.size)

RECURSIVE Set_IsSubset_loop(_, _, _)
Set_IsSubset_loop(s, t, i) ==
    IF i > Len(s.entries) THEN Returns(TRUE)
    ELSE IF s.entries[i].hash1 # 0
         THEN LET c == Set_containsHash1Key(t, s.entries[i].hash1, s.entries[i].key) IN
              IF c.panic THEN Panics
              ELSE IF ~c.result THEN Returns(FALSE)
              ELSE Set_IsSubset_loop(s, t, i + 1)
         ELSE Set_IsSubset_loop(s, t, i + 1)

Set_IsSubset(s, t) ==
    IF s.size > t.size THEN Returns(FALSE)
    ELSE IF s.size = 0 THEN Returns(TRUE)
    ELSE Set_IsSubset_loop(s, t, 1)

\* an IsDisjoint loop that answers at the first live entry
RECURSIVE Set_IsDisjoint_loop_first(_, _, _)
Set_IsDisjoint_loop_first(s, t, i) ==
    IF i > Len(s.entries) THEN Returns(TRUE)
    ELSE IF s.entries[i].hash1 # 0
         THEN LET c == Set_containsHash1Key(t, s.entries[i].hash1, s.entries[i].key) IN
              IF c.panic THEN Panics ELSE Returns(~c.result)
         ELSE Set_IsDisjoint_loop_first(s, t, i + 1)

RECURSIVE Set_IsDisjoint_loop(_, _, _)
Set_IsDisjoint_loop(s, t, i) ==
    IF i > Len(s.entries) THEN Returns(TRUE)
    ELSE IF s.entries[i].hash1 # 0
         THEN LET c == Set_containsHash1Key(t, s.entries[i].hash1, s.entries[i].key) IN
              IF c.panic THEN Panics
              ELSE IF c.result THEN Returns(FALSE)
              ELSE Set_IsDisjoint_loop(s, t, i + 1)
         ELSE Set_IsDisjoint_loop(s, t, i + 1)

\* if len(s.entries) > len(t.entries) { s, t = t, s }: the operand the loop of
\* IsDisjoint scans and the operand it queries
Set_IsDisjoint_operands(s, t) ==
    IF Len(s.entries) > Len(t.entries) THEN [scan |-> t, query |-> s]
    ELSE [scan |-> s, query |-> t]

Set_IsDisjoint(s, t) ==
    IF s.size = 0 \/ t.size = 0 THEN Returns(TRUE)
    ELSE LET o == Set_IsDisjoint_operands(s, t) IN
         Set_IsDisjoint_loop(o.scan, o.query, 1)

\* a Union that takes the first EMPTY slot for the end of the entries
RECURSIVE Set_Union_loop_stop(_, _, _)
Set_Union_loop_stop(r, entries, i) ==
    IF i > Len(entries) THEN r
    ELSE IF entries[i].hash1 # 0
         THEN Set_Union_loop_stop(Set_addHash1Key(r, entries[i].hash1, entries[i].key),
                                  entries, i + 1)
         ELSE r

\* for _, entry := range s.entries { r.addHash1Key(...) }
RECURSIVE Set_Union_loop(_, _, _)
Set_Union_loop(r, entries, i) ==
    IF i > Len(entries) THEN r
    ELSE IF entries[i].hash1 # 0
         THEN Set_Union_loop(Set_addHash1Key(r, entries[i].hash1, entries[i].key),
                             entries, i + 1)
         ELSE Set_Union_loop(r, entries, i + 1)

\* a Union that scans the operand of fewer keys and copies the other
Set_Union_operands_bysize(s, t) ==
    IF s.size > t.size THEN [scan |-> t, query |-> s]
    ELSE [scan |-> s, query |-> t]

\* if len(s.entries) > len(t.entries) { s, t = t, s }: the operand the loop of
\* Union scans and the operand it copies
Set_Union_operands(s, t) ==
    IF Len(s.entries) > Len(t.entries) THEN [scan |-> t, query |-> s]
    ELSE [scan |-> s, query |-> t]

Set_Union(s, t) ==
    IF s.size = 0 THEN Set_Copy(t)
    ELSE IF t.size = 0 THEN Set_Copy(s)
    ELSE LET o == Set_Union_operands(s, t) IN
         Set_Union_loop(Set_Copy(o.query), o.scan.entries, 1)

\* an Intersection loop that looks the entries up in the Set they come from
RECURSIVE Set_Intersection_loop_self(_, _, _, _)
Set_Intersection_loop_self(r, s, t, i) ==
    IF i > Len(s.entries) THEN r
    ELSE IF s.entries[i].hash1 # 0
         THEN LET c == Set_containsHash1Key(s, s.entries[i].hash1, s.entries[i].key) IN
              IF c.panic THEN PanicSet
              ELSE IF c.result
                   THEN Set_Intersection_loop_self(
                            Set_addHash1Key(r, s.entries[i].hash1, s.entries[i].key),
                            s, t, i + 1)
                   ELSE Set_Intersection_loop_self(r, s, t, i + 1)
         ELSE Set_Intersection_loop_self(r, s, t, i + 1)

RECURSIVE Set_Intersection_loop(_, _, _, _)
Set_Intersection_loop(r, s, t, i) ==
    IF i > Len(s.entries) THEN r
    ELSE IF s.entries[i].hash1 # 0
         THEN LET c == Set_containsHash1Key(t, s.entries[i].hash1, s.entries[i].key) IN
              IF c.panic THEN PanicSet
              ELSE IF c.result
                   THEN Set_Intersection_loop(
                            Set_addHash1Key(r, s.entries[i].hash1, s.entries[i].key),
                            s, t, i + 1)
                   ELSE Set_Intersection_loop(r, s, t, i + 1)
         ELSE Set_Intersection_loop(r, s, t, i + 1)

\* if len(s.entries) > len(t.entries) { s, t = t, s }: the operand the loop of
\* Intersection scans and the operand it queries
Set_Intersection_operands(s, t) ==
    IF Len(s.entries) > Len(t.entries) THEN [scan |-> t, query |-> s]
    ELSE [scan |-> s, query |-> t]

Set_Intersection(s, t) ==
    IF s.size = 0 \/ t.size = 0 THEN ZeroSet
    ELSE LET o == Set_Intersection_operands(s, t) IN
         Set_Intersection_loop(ZeroSet, o.scan, o.query, 1)

\* a Difference that takes the first EMPTY slot for the end of the entries
RECURSIVE Set_Difference_loop_stop(_, _, _)
Set_Difference_loop_stop(r, entries, i) ==
    IF i > Len(entries) THEN r
    ELSE IF entries[i].hash1 # 0
         THEN Set_Difference_loop_stop(
                  Set_removeHash1Key(r, entries[i].hash1, entries[i].key), entries, i + 1)
         ELSE r

RECURSIVE Set_Difference_loop(_, _, _)
Set_Difference_loop(r, entries, i) ==
    IF i > Len(entries) THEN r
    ELSE IF entries[i].hash1 # 0
         THEN Set_Difference_loop(Set_removeHash1Key(r, entries[i].hash1, entries[i].key),
                                  entries, i + 1)
         ELSE Set_Difference_loop(r, entries, i + 1)

\* r := s.Copy(); for _, entry := range t.entries: the operand the loop of
\* Difference scans and the operand whose copy it removes from
Set_Difference_operands(s, t) == [scan |-> t, query |-> s]

Set_Difference(s, t) ==
    LET r == Set_Copy(Set_Difference_operands(s, t).query) IN
    IF s.size = 0 \/ t.size = 0 THEN r
    ELSE Set_Difference_loop(r, Set_Difference_operands(s, t).scan.entries, 1)

\* a Copy whose entries field is the array of the original
Set_Copy_array_shared(s, array, fresh) == IF s.size = 0 THEN 0 ELSE array

\* the address of the slot array of the Set that Copy returns: nil (0) in the
\* &Set[K]{} returned for an empty s, else what make gave
Set_Copy_array(s, array, fresh) == IF s.size = 0 THEN 0 ELSE fresh

\* the slot array of s as addHash1Key leaves it before it checks the threshold
Set_Add_stored(s, key) ==
    IF Len(s.entries) = 0 THEN s.entries
    ELSE LET hash1 == BitOr(Int_Hash(key), fullBit)
             at == Set_addHash1Key_loop(s, hash1, key, BitAnd(hash1, Len(s.entries) - 1))
         IN  IF at.found THEN s.entries
             ELSE [s.entries EXCEPT ![at.index + 1] = [hash1 |-> hash1, key |-> key]]

\* the slot array of s as removeHash1Key leaves it before it checks the
\* threshold
Set_Remove_cleared(s, key) ==
    IF s.size = 0 \/ Len(s.entries) = 0 THEN s.entries
    ELSE LET hash1 == BitOr(Int_Hash(key), fullBit)
             index == Set_removeHash1Key_loop(s, hash1, key,
                                              BitAnd(hash1, Len(s.entries) - 1))
         IN  IF index = -1 THEN s.entries
             ELSE [s.entries EXCEPT ![index + 1] = ZeroSetEntry]

\* ------------------------------------- what the binary calls leave behind
\* The operands of s.Op(t) as the call leaves them. No statement of Equals,
\* IsSubset or IsDisjoint assigns to a field or to a slot, and the swap
\* s, t = t, s exchanges the two local pointers, never what they point to.
Set_Equals_after(s, t) == [s |-> s, t |-> t]
Set_IsSubset_after(s, t) == [s |-> s, t |-> t]
Set_IsDisjoint_after(s, t) == [s |-> s, t |-> t]

\* Intersection writes to r alone, and r is new(Set[K]): its slot array comes
\* from the make of init
Set_Intersection_after(s, t) == [s |-> s, t |-> t]

\* the array r got from Copy, as the calls r.addHash1Key of the loop of Union
\* leave it: with every entry stored, up to the call that replaces the array
RECURSIVE Set_Union_array(_, _, _)
Set_Union_array(r, entries, i) ==
    IF i > Len(entries) THEN r.entries
    ELSE IF entries[i].hash1 = 0 THEN Set_Union_array(r, entries, i + 1)
    ELSE LET r1 == Set_addHash1Key(r, entries[i].hash1, entries[i].key) IN
         IF Len(r1.entries) = Len(r.entries)
         THEN Set_Union_array(r1, entries, i + 1)
         ELSE Set_Add_stored(r, entries[i].key)

\* Union writes to r alone, and r is the Copy of the operand it does not
\* scan: that operand changes if r holds the array it holds
Set_Union_after(s, t) ==
    IF s.size = 0 \/ t.size = 0 THEN [s |-> s, t |-> t]
    ELSE LET o == Set_Union_operands(s, t)
             held == 1
             fresh == 2
             q == IF Set_Copy_array(o.query, held, fresh) = held
                  THEN [o.query EXCEPT !.entries =
                           Set_Union_array(Set_Copy(o.query), o.scan.entries, 1)]
                  ELSE o.query
         IN  IF o.query = t THEN [s |-> s, t |-> q] ELSE [s |-> q, t |-> t]

\* the array r got from Copy, as the calls r.removeHash1Key of the loop of
\* Difference leave it
RECURSIVE Set_Difference_array(_, _, _)
Set_Difference_array(r, entries, i) ==
    IF i > Len(entries) THEN r.entries
    ELSE IF entries[i].hash1 = 0 THEN Set_Difference_array(r, entries, i + 1)
    ELSE LET r1 == Set_removeHash1Key(r, entries[i].hash1, entries[i].key) IN
         IF Len(r1.entries) = Len(r.entries)
         THEN Set_Difference_array(r1, entries, i + 1)
         ELSE Set_Remove_cleared(r, entries[i].key)

\* Difference writes to r alone, and r is the Copy of s
Set_Difference_after(s, t) ==
    LET held == 1
        fresh == 2
    IN  IF s.size = 0 \/ t.size = 0 \/ Set_Copy_array(s, held, fresh) # held
        THEN [s |-> s, t |-> t]
        ELSE [s |-> [s EXCEPT !.entries =
                        Set_Difference_array(Set_Copy(s), t.entries, 1)],
              t |-> t]

\* ------------------------------------------------------ the loops, counted
\* The slots the probing loop of Get, putHash1, Remove, containsHash1Key,
\* addHash1Key and removeHash1Key reads for (hash1, key) from index, the n-th
\* being the slot at index: it ends at an EMPTY slot or at the slot of the
\* key. More than Len(entries) when it has read every slot and goes on.
RECURSIVE probes(_, _, _, _, _)
probes(entries, hash1, key, index, n) ==
    IF n > Len(entries) THEN n
    ELSE LET entry == entries[index + 1] IN
         IF entry.hash1 = 0 \/ (entry.hash1 = hash1 /\ Int_Equals(entry.key, key))
         THEN n
         ELSE probes(entries, hash1, key, BitAnd(index + 1, Len(entries) - 1), n + 1)

\* the loop of resize from position i of the old array: for every putHash1 it
\* calls, the slots its probing loop reads, the capacity it finds and the
\* capacity it leaves
RECURSIVE Map_resize_trace(_, _, _)
Map_resize_trace(m, entries, i) ==
    IF i > Len(entries) \/ Len(m.entries) = 0 THEN << >>
    ELSE IF entries[i].hash1 = 0 THEN Map_resize_trace(m, entries, i + 1)
    ELSE LET m1 == Map_putHash1(m, entries[i].hash1, entries[i].key, entries[i].value) IN
         << [probes |-> probes(m.entries, entries[i].hash1, entries[i].key,
                               BitAnd(entries[i].hash1, Len(m.entries) - 1), 1),
             cap |-> Len(m.entries), after |-> Len(m1.entries)] >>
             \o Map_resize_trace(m1, entries, i + 1)

\* the resize of m.Put(key, value), if it calls one
Map_Put_resize_trace(m, key, value) ==
    LET stored == Map_Put_stored(m, key, value) IN
    IF stored = m.entries \/ m.size + 1 <= (3 * Len(m.entries)) \div 4 THEN << >>
    ELSE Map_resize_trace([entries |-> MakeMapEntries(Len(m.entries) * 2), size |-> 0],
                          stored, 1)

\* the resize of m.Remove(key), if it calls one
Map_Remove_resize_trace(m, key) ==
    LET cleared == Map_Remove_cleared(m, key) IN
    IF cleared = m.entries
       \/ ~(Len(m.entries) > initialCapacity /\ m.size - 1 < Len(m.entries) \div 4)
    THEN << >>
    ELSE Map_resize_trace([entries |-> MakeMapEntries(Len(m.entries) \div 2), size |-> 0],
                          cleared, 1)

\* the inner loop of Remove from index, its n-th pass: for every entry it
\* clears and puts again, the slot it was in (from), its home slot, the slot
\* putHash1 stores it in (to), the slots the probing loop reads, and the
\* capacity before and after. A pass beyond the Len(entries)-th is recorded
\* with to = -1 and ends the trace.
RECURSIVE Map_Remove_repair_trace(_, _, _)
Map_Remove_repair_trace(m, index, n) ==
    IF Len(m.entries) = 0 \/ m.entries[index + 1].hash1 = 0 THEN << >>
    ELSE IF n > Len(m.entries)
    THEN << [from |-> index, home |-> index, to |-> -1, probes |-> 0,
             cap |-> Len(m.entries), after |-> Len(m.entries)] >>
    ELSE LET entry == m.entries[index + 1]
             m1 == [entries |-> [m.entries EXCEPT ![index + 1] = ZeroMapEntry],
                    size |-> m.size - 1]
             home == BitAnd(entry.hash1, Len(m1.entries) - 1)
             at == Map_putHash1_loop(m1, entry.hash1, entry.key, home)
             m2 == Map_putHash1(m1, entry.hash1, entry.key, entry.value)
         IN  << [from |-> index, home |-> home, to |-> at.index,
                 probes |-> probes(m1.entries, entry.hash1, entry.key, home, 1),
                 cap |-> Len(m1.entries), after |-> Len(m2.entries)] >>
                 \o Map_Remove_repair_trace(m2, BitAnd(index + 1, Len(m2.entries) - 1), n + 1)

\* the inner loop of m.Remove(key), if it gets there
Map_Remove_trace(m, key) ==
    IF m.size = 0 \/ Len(m.entries) = 0 THEN << >>
    ELSE
    LET hash1 == BitOr(Int_Hash(key), fullBit)
        index == Map_Remove_loop(m, hash1, key, BitAnd(hash1, Len(m.entries) - 1))
    IN  IF index = -1 THEN << >>
        ELSE LET m1 == [entries |-> [m.entries EXCEPT ![index + 1] = ZeroMapEntry],
                        size |-> m.size - 1] IN
             IF Len(m1.entries) > initialCapacity /\ m1.size < Len(m1.entries) \div 4
             THEN << >>
             ELSE Map_Remove_repair_trace(m1, BitAnd(index + 1, Len(m1.entries) - 1), 1)

\* the same for the Set
RECURSIVE Set_resize_trace(_, _, _)
Set_resize_trace(s, entries, i) ==
    IF i > Len(entries) \/ Len(s.entries) = 0 THEN << >>
    ELSE IF entries[i].hash1 = 0 THEN Set_resize_trace(s, entries, i + 1)
    ELSE LET s1 == Set_addHash1Key(s, entries[i].hash1, entries[i].key) IN
         << [probes |-> probes(s.entries, entries[i].hash1, entries[i].key,
                               BitAnd(entries[i].hash1, Len(s.entries) - 1), 1),
             cap |-> Len(s.entries), after |-> Len(s1.entries)] >>
             \o Set_resize_trace(s1, entries, i + 1)

Set_Add_resize_trace(s, key) ==
    LET stored == Set_Add_stored(s, key) IN
    IF stored = s.entries \/ s.size + 1 <= (3 * Len(s.entries)) \div 4 THEN << >>
    ELSE Set_resize_trace([entries |-> MakeSetEntries(Len(s.entries) * 2), size |-> 0,
                           hash |-> emptySetHash], stored, 1)

Set_Remove_resize_trace(s, key) ==
    LET cleared == Set_Remove_cleared(s, key) IN
    IF cleared = s.entries
       \/ ~(Len(s.entries) > initialCapacity /\ s.size - 1 < Len(s.entries) \div 4)
    THEN << >>
    ELSE Set_resize_trace([entries |-> MakeSetEntries(Len(s.entries) \div 2), size |-> 0,
                           hash |-> emptySetHash], cleared, 1)

RECURSIVE Set_removeHash1Key_repair_trace(_, _, _)
Set_removeHash1Key_repair_trace(s, index, n) ==
    IF Len(s.entries) = 0 \/ s.entries[index + 1].hash1 = 0 THEN << >>
    ELSE IF n > Len(s.entries)
    THEN << [from |-> index, home |-> index, to |-> -1, probes |-> 0,
             cap |-> Len(s.entries), after |-> Len(s.entries)] >>
    ELSE LET entry == s.entries[index + 1]
             s1 == [entries |-> [s.entries EXCEPT ![index + 1] = ZeroSetEntry],
                    size |-> s.size - 1,
                    hash |-> BitXor(s.hash, entry.hash1)]
             home == BitAnd(entry.hash1, Len(s1.entries) - 1)
             at == Set_addHash1Key_loop(s1, entry.hash1, entry.key, home)
             s2 == Set_addHash1Key(s1, entry.hash1, entry.key)
         IN  << [from |-> index, home |-> home, to |-> at.index,
                 probes |-> probes(s1.entries, entry.hash1, entry.key, home, 1),
                 cap |-> Len(s1.entries), after |-> Len(s2.entries)] >>
                 \o Set_removeHash1Key_repair_trace(
                        s2, BitAnd(index + 1, Len(s2.entries) - 1), n + 1)

\* the inner loop of s.Remove(key): on the rebuilt array after a shrink
Set_Remove_trace(s, key) ==
    IF s.size = 0 \/ Len(s.entries) = 0 THEN << >>
    ELSE
    LET hash1 == BitOr(Int_Hash(key), fullBit)
        index == Set_removeHash1Key_loop(s, hash1, key, BitAnd(hash1, Len(s.entries) - 1))
    IN  IF index = -1 THEN << >>
        ELSE LET s1 == [entries |-> [s.entries EXCEPT ![index + 1] = ZeroSetEntry],
                        size |-> s.size - 1,
                        hash |-> BitXor(s.hash, hash1)]
                 s2 == IF Len(s1.entries) > initialCapacity
                          /\ s1.size < Len(s1.entries) \div 4
                       THEN Set_resize(s1, Len(s1.entries) \div 2)
                       ELSE s1
             IN  Set_removeHash1Key_repair_trace(
                     s2, BitAnd(index + 1, Len(s2.entries) - 1), 1)

\* ============================================================ state machine
\* One caller, one call at a time (the containers are not thread-safe): a call
\* acts on a container and leaves what it returned in r; Return hands r to the
\* caller before the next call.
VARIABLES
    under,  \* what this run exercises: "Map", "Set" (s alone), "Pair" (s and t),
            \* "MapCopy" (m and its copy mCopy) or "SetCopy" (s and its copy t)
    m,      \* the Map
    mLog,   \* the keys put and not removed since, each with the value last put
    s,      \* a Set
    sLog,   \* the keys added to s and not removed since
    t,      \* a second Set
    tLog,   \* the keys added to t and not removed since
    mCopy,  \* a second Map: the copy of m the caller keeps
    mCopyLog, \* the keys put into mCopy and not removed since, with their values
    heap,   \* the address of the slot array of each container in the runs
            \* that keep a copy; 0 is nil
    since,  \* the calls that changed a container since the last kept copy
    r       \* the call that has just run and what it returned

vars == << seed, under, m, mLog, s, sLog, t, tLog, mCopy, mCopyLog, heap, since, r >>

\* What the caller does with the container named w ("m", "mCopy", "s" or "t"). It
\* inserts and removes the active keys in any order. The fill keys go in in
\* ascending order and come out in descending order, so that the ones that
\* are in are always the lowest. A container exercised alone has the active
\* keys 0 and 256; of two Sets, s takes the Int keys in order and t the key
\* 256 in any order and the lowest NumSmall Int keys in order; a container
\* and its kept copy have the active key 0.
ActiveKeys(w) ==
    IF under = "Pair" THEN (IF w = "s" THEN {} ELSE {256})
    ELSE IF under \in {"MapCopy", "SetCopy"} THEN {0}
    ELSE {0, 256}
FillKeys(w) ==
    IF under = "Pair"
    THEN (IF w = "s" THEN 0 .. (NumInts - 1) ELSE 0 .. (NumSmall - 1))
    ELSE 1 .. (NumInts - 1)
InsertOK(w, k, live) ==
    \/ k \in ActiveKeys(w)
    \/ k \in FillKeys(w) /\ \A j \in FillKeys(w) : j < k => j \in live
RemoveOK(w, k, live) ==
    \/ k \in ActiveKeys(w)
    \/ k \in FillKeys(w) /\ \A j \in FillKeys(w) : j > k => j \notin live

\* the values Put stores under key k
ValuesFor(k) == IF k \in ActiveKeys("m") THEN {1, 2} ELSE {1}

\* r: the call (op), the operands of a binary Set operation (a, b), and what
\* was returned: a boolean, a number, the visited keys, a Set or a Map;
\* panic when the call indexed a slot array of capacity 0
NoResult ==
    [op |-> "none", a |-> "", b |-> "", bool |-> FALSE, val |-> 0, seq |-> << >>,
     set |-> ZeroSet, map |-> ZeroMap, panic |-> FALSE]

Init ==
    /\ seed \in Seeds
    /\ under \in {"Map", "Set", "Pair", "MapCopy", "SetCopy"}
    /\ m = ZeroMap
    /\ mLog = << >>
    /\ s = ZeroSet
    /\ sLog = {}
    /\ t = ZeroSet
    /\ tLog = {}
    /\ mCopy = ZeroMap
    /\ mCopyLog = << >>
    /\ heap = [w \in {"m", "mCopy", "s", "t"} |-> 0]
    /\ since = 0
    /\ r = NoResult

\* f with key k bound to v / with key k removed
LogPut(f, k, v) == [x \in DOMAIN f \cup {k} |-> IF x = k THEN v ELSE f[x]]
LogRemove(f, k) == [x \in DOMAIN f \ {k} |-> f[x]]

Idle == r.op = "none"

Return ==
    /\ ~Idle
    /\ r' = NoResult
    /\ UNCHANGED << seed, under, mCopy, mCopyLog, heap, since, m, mLog, s, sLog, t, tLog >>

\* ---------------------------------------------------------------- Map calls
CallMapPut(k, v) ==
    /\ under = "Map" /\ Idle /\ InsertOK("m", k, DOMAIN mLog)
    /\ m' = Map_Put(m, k, v)
    /\ mLog' = LogPut(mLog, k, v)
    /\ r' = [NoResult EXCEPT !.op = "Put", !.bool = (k \in DOMAIN mLog),
                             !.val = Len(m.entries), !.panic = (m'.size < 0)]
    /\ UNCHANGED << seed, under, mCopy, mCopyLog, heap, since, s, sLog, t, tLog >>

CallMapRemove(k) ==
    /\ under = "Map" /\ Idle /\ RemoveOK("m", k, DOMAIN mLog)
    /\ m' = Map_Remove(m, k)
    /\ mLog' = LogRemove(mLog, k)
    /\ r' = [NoResult EXCEPT !.op = "Remove", !.bool = (k \in DOMAIN mLog),
                             !.val = Len(m.entries), !.panic = (m'.size < 0)]
    /\ UNCHANGED << seed, under, mCopy, mCopyLog, heap, since, s, sLog, t, tLog >>

CallMapGet(k) ==
    /\ under = "Map" /\ Idle
    /\ LET g == Map_Get(m, k) IN
       r' = [NoResult EXCEPT !.op = "Get", !.val = g.value, !.bool = g.found,
                             !.panic = g.panic]
    /\ UNCHANGED << seed, under, mCopy, mCopyLog, heap, since, m, mLog, s, sLog, t, tLog >>

CallMapSize ==
    /\ under = "Map" /\ Idle
    /\ r' = [NoResult EXCEPT !.op = "Size", !.val = Map_Size(m)]
    /\ UNCHANGED << seed, under, mCopy, mCopyLog, heap, since, m, mLog, s, sLog, t, tLog >>

CallMapForEach ==
    /\ under = "Map" /\ Idle
    /\ \E errKeys \in {{}, {0}} :
         LET f == Map_ForEach(m, errKeys) IN
         r' = [NoResult EXCEPT !.op = "ForEach", !.seq = f.visited, !.val = f.err]
    /\ UNCHANGED << seed, under, mCopy, mCopyLog, heap, since, m, mLog, s, sLog, t, tLog >>

CallMapCopy ==
    /\ under = "Map" /\ Idle
    /\ r' = [NoResult EXCEPT !.op = "Copy", !.map = Map_Copy(m)]
    /\ UNCHANGED << seed, under, mCopy, mCopyLog, heap, since, m, mLog, s, sLog, t, tLog >>

NextMap ==
    \/ \E k \in Keys : \E v \in ValuesFor(k) : CallMapPut(k, v)
    \/ \E k \in Keys : CallMapRemove(k)
    \/ \E k \in Keys : CallMapGet(k)
    \/ CallMapSize
    \/ CallMapForEach
    \/ CallMapCopy
    \/ Return

SpecMap == Init /\ [][NextMap]_vars

\* ---------------------------------------------------------------- Set calls
\* the Set named w, and the keys its log holds
SetOf(w) == IF w = "s" THEN s ELSE t
LogOf(w) == IF w = "s" THEN sLog ELSE tLog

\* the run exercises the Set named w
Exercises(w) == (under = "Set" /\ w = "s") \/ under = "Pair"

\* the Set named w becomes x and its log becomes l; the other Set stays
Assign(w, x, l) ==
    \/ w = "s" /\ s' = x /\ sLog' = l /\ UNCHANGED << t, tLog >>
    \/ w = "t" /\ t' = x /\ tLog' = l /\ UNCHANGED << s, sLog >>

CallSetAdd(w, k) ==
    /\ Exercises(w) /\ Idle /\ InsertOK(w, k, LogOf(w))
    /\ LET x == Set_Add(SetOf(w), k) IN
       /\ Assign(w, x, LogOf(w) \cup {k})
       /\ r' = [NoResult EXCEPT !.op = "Add", !.a = w, !.bool = (k \in LogOf(w)),
                                !.val = Len(SetOf(w).entries), !.panic = (x.size < 0)]
    /\ UNCHANGED << seed, under, mCopy, mCopyLog, heap, since, m, mLog >>

CallSetRemove(w, k) ==
    /\ Exercises(w) /\ Idle /\ RemoveOK(w, k, LogOf(w))
    /\ LET x == Set_Remove(SetOf(w), k) IN
       /\ Assign(w, x, LogOf(w) \ {k})
       /\ r' = [NoResult EXCEPT !.op = "Remove", !.a = w, !.bool = (k \in LogOf(w)),
                                !.val = Len(SetOf(w).entries), !.panic = (x.size < 0)]
    /\ UNCHANGED << seed, under, mCopy, mCopyLog, heap, since, m, mLog >>

CallSetContains(w, k) ==
    /\ Exercises(w) /\ Idle
    /\ LET c == Set_Contains(SetOf(w), k) IN
       r' = [NoResult EXCEPT !.op = "Contains", !.a = w, !.bool = c.result,
                             !.panic = c.panic]
    /\ UNCHANGED << seed, under, mCopy, mCopyLog, heap, since, m, mLog, s, sLog, t, tLog >>

CallSetSize(w) ==
    /\ Exercises(w) /\ Idle
    /\ r' = [NoResult EXCEPT !.op = "Size", !.a = w, !.val = Set_Size(SetOf(w))]
    /\ UNCHANGED << seed, under, mCopy, mCopyLog, heap, since, m, mLog, s, sLog, t, tLog >>

CallSetForEach(w) ==
    /\ Exercises(w) /\ Idle
    /\ \E errKeys \in {{}, {0}} :
         LET f == Set_ForEach(SetOf(w), errKeys) IN
         r' = [NoResult EXCEPT !.op = "ForEach", !.a = w, !.seq = f.visited, !.val = f.err]
    /\ UNCHANGED << seed, under, mCopy, mCopyLog, heap, since, m, mLog, s, sLog, t, tLog >>

CallSetCopy(w) ==
    /\ Exercises(w) /\ Idle
    /\ r' = [NoResult EXCEPT !.op = "Copy", !.a = w, !.set = Set_Copy(SetOf(w))]
    /\ UNCHANGED << seed, under, mCopy, mCopyLog, heap, since, m, mLog, s, sLog, t, tLog >>

CallSetHash(w) ==
    /\ Exercises(w) /\ Idle
    /\ r' = [NoResult EXCEPT !.op = "Hash", !.a = w, !.val = Set_Hash(SetOf(w))]
    /\ UNCHANGED << seed, under, mCopy, mCopyLog, heap, since, m, mLog, s, sLog, t, tLog >>

\* the Set named w after a call a.Op(b) that leaves its operands as in after;
\* a and b name one Set in a call of a Set on itself
AfterOf(w, a, b, after) ==
    IF w = a /\ after.s # SetOf(a) THEN after.s
    ELSE IF w = b THEN after.t
    ELSE IF w = a THEN after.s
    ELSE SetOf(w)

Leaves(a, b, after) ==
    /\ s' = AfterOf("s", a, b, after)
    /\ t' = AfterOf("t", a, b, after)

\* the binary calls: a.Op(b), where a and b name Sets (the same one twice for
\* a call of a Set on itself)
CallSetEquals(a, b) ==
    /\ Exercises(a) /\ Exercises(b) /\ Idle
    /\ LET e == Set_Equals(SetOf(a), SetOf(b)) IN
       r' = [NoResult EXCEPT !.op = "Equals", !.a = a, !.b = b, !.bool = e.result,
                             !.panic = e.panic]
    /\ Leaves(a, b, Set_Equals_after(SetOf(a), SetOf(b)))
    /\ UNCHANGED << seed, under, mCopy, mCopyLog, heap, since, m, mLog, sLog, tLog >>

CallSetIsSubset(a, b) ==
    /\ Exercises(a) /\ Exercises(b) /\ Idle
    /\ LET e == Set_IsSubset(SetOf(a), SetOf(b)) IN
       r' = [NoResult EXCEPT !.op = "IsSubset", !.a = a, !.b = b, !.bool = e.result,
                             !.panic = e.panic]
    /\ Leaves(a, b, Set_IsSubset_after(SetOf(a), SetOf(b)))
    /\ UNCHANGED << seed, under, mCopy, mCopyLog, heap, since, m, mLog, sLog, tLog >>

CallSetIsDisjoint(a, b) ==
    /\ Exercises(a) /\ Exercises(b) /\ Idle
    /\ LET e == Set_IsDisjoint(SetOf(a), SetOf(b)) IN
       r' = [NoResult EXCEPT !.op = "IsDisjoint", !.a = a, !.b = b, !.bool = e.result,
                             !.panic = e.panic]
    /\ Leaves(a, b, Set_IsDisjoint_after(SetOf(a), SetOf(b)))
    /\ UNCHANGED << seed, under, mCopy, mCopyLog, heap, since, m, mLog, sLog, tLog >>

CallSetUnion(a, b) ==
    /\ Exercises(a) /\ Exercises(b) /\ Idle
    /\ LET x == Set_Union(SetOf(a), SetOf(b)) IN
       r' = [NoResult EXCEPT !.op = "Union", !.a = a, !.b = b, !.set = x,
                             !.panic = (x.size < 0)]
    /\ Leaves(a, b, Set_Union_after(SetOf(a), SetOf(b)))
    /\ UNCHANGED << seed, under, mCopy, mCopyLog, heap, since, m, mLog, sLog, tLog >>

CallSetIntersection(a, b) ==
    /\ Exercises(a) /\ Exercises(b) /\ Idle
    /\ LET x == Set_Intersection(SetOf(a), SetOf(b)) IN
       r' = [NoResult EXCEPT !.op = "Intersection", !.a = a, !.b = b, !.set = x,
                             !.panic = (x.size < 0)]
    /\ Leaves(a, b, Set_Intersection_after(SetOf(a), SetOf(b)))
    /\ UNCHANGED << seed, under, mCopy, mCopyLog, heap, since, m, mLog, sLog, tLog >>

CallSetDifference(a, b) ==
    /\ Exercises(a) /\ Exercises(b) /\ Idle
    /\ LET x == Set_Difference(SetOf(a), SetOf(b)) IN
       r' = [NoResult EXCEPT !.op = "Difference", !.a = a, !.b = b, !.set = x,
                             !.panic = (x.size < 0)]
    /\ Leaves(a, b, Set_Difference_after(SetOf(a), SetOf(b)))
    /\ UNCHANGED << seed, under, mCopy, mCopyLog, heap, since, m, mLog, sLog, tLog >>

Sets == {"s", "t"}

\* the calls on one Set
NextUnary ==
    \/ \E w \in Sets, k \in Keys : CallSetAdd(w, k)
    \/ \E w \in Sets, k \in Keys : CallSetRemove(w, k)
    \/ \E w \in Sets, k \in Keys : CallSetContains(w, k)
    \/ \E w \in Sets : CallSetSize(w)
    \/ \E w \in Sets : CallSetForEach(w)
    \/ \E w \in Sets : CallSetCopy(w)
    \/ \E w \in Sets : CallSetHash(w)

\* the calls of one Set on another
NextBinary ==
    \/ \E a \in Sets, b \in Sets : CallSetEquals(a, b)
    \/ \E a \in Sets, b \in Sets : CallSetIsSubset(a, b)
    \/ \E a \in Sets, b \in Sets : CallSetIsDisjoint(a, b)
    \/ \E a \in Sets, b \in Sets : CallSetUnion(a, b)
    \/ \E a \in Sets, b \in Sets : CallSetIntersection(a, b)
    \/ \E a \in Sets, b \in Sets : CallSetDifference(a, b)

NextSet == NextUnary \/ NextBinary \/ Return

SpecSet == Init /\ [][NextSet]_vars

\* ------------------------------------------------- calls on a kept copy
\* what make returns in a call that assigns it to the entries field of the
\* container named w: the address of an array that no other container holds
\* (the array w held is no longer reachable once the call has returned)
make(w) ==
    LET held == {heap[o] : o \in DOMAIN heap \ {w}}
    IN  CHOOSE a \in 1 .. Cardinality(held) + 1 :
            a \notin held /\ \A b \in 1 .. (a - 1) : b \in held

\* the containers named w and o hold the same slot array
Shares(w, o) == heap[w] # 0 /\ heap[w] = heap[o]

\* a call that took the container from x to x1 wrote to the slot array x had
\* and kept it: init and resize are the only places that replace the array,
\* and they change its length
InPlace(x, x1) == Len(x1.entries) = Len(x.entries)

\* the container o after a call took the container named w from x to x1,
\* leaving stored in the array x had when the call replaced it: o sees what
\* was written to an array it shares
Seen(o, name, w, x, x1, stored) ==
    IF Shares(w, name)
    THEN [o EXCEPT !.entries = IF InPlace(x, x1) THEN x1.entries ELSE stored]
    ELSE o

\* the addresses after that call
HeapAfter(w, x, x1) == IF InPlace(x, x1) THEN heap ELSE [heap EXCEPT ![w] = make(w)]

MapOf(w) == IF w = "m" THEN m ELSE mCopy
MapLogOf(w) == IF w = "m" THEN mLog ELSE mCopyLog

\* a call on the Map named w took it to x1 and its log to l
AssignMap(w, x1, l, stored) ==
    /\ \/ /\ w = "m" /\ m' = x1 /\ mLog' = l
          /\ mCopy' = Seen(mCopy, "mCopy", w, m, x1, stored)
          /\ mCopyLog' = mCopyLog
       \/ /\ w = "mCopy" /\ mCopy' = x1 /\ mCopyLog' = l
          /\ m' = Seen(m, "m", w, mCopy, x1, stored)
          /\ mLog' = mLog
    /\ heap' = HeapAfter(w, MapOf(w), x1)
    /\ since' = since + 1

\* mCopy = m.Copy()
KeepMapCopy ==
    /\ under = "MapCopy" /\ Idle
    /\ mCopy' = Map_Copy(m)
    /\ mCopyLog' = mLog
    /\ heap' = [heap EXCEPT !["mCopy"] = Map_Copy_array(m, heap["m"], make("mCopy"))]
    /\ since' = 0
    /\ r' = [NoResult EXCEPT !.op = "Copy", !.a = "m"]
    /\ UNCHANGED << seed, under, m, mLog, s, sLog, t, tLog >>

CopyMapPut(w, k, v) ==
    /\ under = "MapCopy" /\ Idle /\ since < MaxAfterCopy
    /\ InsertOK(w, k, DOMAIN MapLogOf(w))
    /\ AssignMap(w, Map_Put(MapOf(w), k, v), LogPut(MapLogOf(w), k, v),
                 Map_Put_stored(MapOf(w), k, v))
    /\ r' = [NoResult EXCEPT !.op = "Put", !.a = w, !.bool = (k \in DOMAIN MapLogOf(w))]
    /\ UNCHANGED << seed, under, s, sLog, t, tLog >>

CopyMapRemove(w, k) ==
    /\ under = "MapCopy" /\ Idle /\ since < MaxAfterCopy
    /\ RemoveOK(w, k, DOMAIN MapLogOf(w))
    /\ AssignMap(w, Map_Remove(MapOf(w), k), LogRemove(MapLogOf(w), k),
                 Map_Remove_cleared(MapOf(w), k))
    /\ r' = [NoResult EXCEPT !.op = "Remove", !.a = w, !.bool = (k \in DOMAIN MapLogOf(w))]
    /\ UNCHANGED << seed, under, s, sLog, t, tLog >>

\* a call on the Set named w took it to x1 and its log to l
AssignSet(w, x1, l, stored) ==
    /\ \/ /\ w = "s" /\ s' = x1 /\ sLog' = l
          /\ t' = Seen(t, "t", w, s, x1, stored)
          /\ tLog' = tLog
       \/ /\ w = "t" /\ t' = x1 /\ tLog' = l
          /\ s' = Seen(s, "s", w, t, x1, stored)
          /\ sLog' = sLog
    /\ heap' = HeapAfter(w, SetOf(w), x1)
    /\ since' = since + 1

\* t = s.Copy()
KeepSetCopy ==
    /\ under = "SetCopy" /\ Idle
    /\ t' = Set_Copy(s)
    /\ tLog' = sLog
    /\ heap' = [heap EXCEPT !["t"] = Set_Copy_array(s, heap["s"], make("t"))]
    /\ since' = 0
    /\ r' = [NoResult EXCEPT !.op = "Copy", !.a = "s"]
    /\ UNCHANGED << seed, under, m, mLog, mCopy, mCopyLog, s, sLog >>

CopySetAdd(w, k) ==
    /\ under = "SetCopy" /\ Idle /\ since < MaxAfterCopy
    /\ InsertOK(w, k, LogOf(w))
    /\ AssignSet(w, Set_Add(SetOf(w), k), LogOf(w) \cup {k}, Set_Add_stored(SetOf(w), k))
    /\ r' = [NoResult EXCEPT !.op = "Add", !.a = w, !.bool = (k \in LogOf(w))]
    /\ UNCHANGED << seed, under, m, mLog, mCopy, mCopyLog >>

CopySetRemove(w, k) ==
    /\ under = "SetCopy" /\ Idle /\ since < MaxAfterCopy
    /\ RemoveOK(w, k, LogOf(w))
    /\ AssignSet(w, Set_Remove(SetOf(w), k), LogOf(w) \ {k},
                 Set_Remove_cleared(SetOf(w), k))
    /\ r' = [NoResult EXCEPT !.op = "Remove", !.a = w, !.bool = (k \in LogOf(w))]
    /\ UNCHANGED << seed, under, m, mLog, mCopy, mCopyLog >>

Maps == {"m", "mCopy"}

NextCopy ==
    \/ KeepMapCopy
    \/ \E w \in Maps, k \in Keys : \E v \in ValuesFor(k) : CopyMapPut(w, k, v)
    \/ \E w \in Maps, k \in Keys : CopyMapRemove(w, k)
    \/ KeepSetCopy
    \/ \E w \in Sets, k \in Keys : CopySetAdd(w, k)
    \/ \E w \in Sets, k \in Keys : CopySetRemove(w, k)
    \/ Return

SpecCopy == Init /\ [][NextCopy]_vars

Next == NextMap \/ NextSet \/ NextCopy

Spec == Init /\ [][Next]_vars

\* ================================================================== claims
\* the keys in the non-empty slots of a slot array, and how many such slots
LiveSlots(entries) == {i \in 1 .. Len(entries) : entries[i].hash1 # 0}
LiveKeys(entries) == {entries[i].key : i \in LiveSlots(entries)}

\* the elements of a sequence
Range(seq) == {seq[i] : i \in 1 .. Len(seq)}

\* the Sets the run exercises
Exercised == {w \in Sets : Exercises(w)}

\* C1. Put on a key the Map holds updates the stored value: afterwards Get of
\* that key returns the value just put, found, and Size is what it was.
C1_PutUpdatesValue ==
    [][\A k \in Keys : \A v \in {1, 2} :
          (CallMapPut(k, v) /\ Map_Get(m, k).found)
              => /\ Map_Get(m', k).found
                 /\ Map_Get(m', k).value = v
                 /\ Map_Size(m') = Map_Size(m)]_vars

\* C2. After any sequence of Put and Remove, Get finds exactly the keys put
\* and not removed since, and returns the zero value with found = false for
\* every other key.
C2_MapGetFindsLive ==
    \A k \in Keys :
        LET g == Map_Get(m, k) IN
        /\ ~g.panic
        /\ g.found <=> k \in DOMAIN mLog
        /\ ~g.found => g.value = 0

\* a Remove of a live key has just halved the array, and Get still finds 256
C2_Witness ==
    /\ r.op = "Remove" /\ r.bool
    /\ r.val = 2 * initialCapacity /\ Len(m.entries) = initialCapacity
    /\ Map_Get(m, 256).found /\ ~Map_Get(m, 8).found

\* C3. After any sequence of Add and Remove on a Set, Contains is true exactly
\* for the keys added and not removed since.
C3_SetContainsLive ==
    \A w \in Sets : \A k \in Keys :
        Set_Contains(SetOf(w), k) = Returns(k \in LogOf(w))

\* a Remove of a live key has just halved the array of s, and gone on to the
\* repair loop on the rebuilt array
C3_Witness ==
    /\ r.op = "Remove" /\ r.a = "s" /\ r.bool
    /\ r.val = 2 * initialCapacity /\ Len(s.entries) = initialCapacity
    /\ Set_Contains(s, 256).result /\ ~Set_Contains(s, 8).result

\* C4. Size is the number of distinct live keys, which is the number of
\* non-empty slots of the array, for the Map and for every Set; hence putting
\* a present key and removing an absent one leave it as it was.
C4_SizeIsLiveCount ==
    /\ Map_Size(m) = Cardinality(DOMAIN mLog)
    /\ Map_Size(m) = Cardinality(LiveSlots(m.entries))
    /\ \A w \in Sets :
          /\ Set_Size(SetOf(w)) = Cardinality(LogOf(w))
          /\ Set_Size(SetOf(w)) = Cardinality(LiveSlots(SetOf(w).entries))

\* a present key has just been put again into a Map that has grown
C4_Witness ==
    /\ r.op = "Put" /\ r.bool
    /\ Len(m.entries) = 2 * initialCapacity /\ Map_Size(m) > initialCapacity \div 2

\* C5. ForEach with a visitor that never fails visits every live key exactly
\* once and no other key, for the Map and for every Set.
C5_ForEachVisitsLive ==
    /\ LET f == Map_ForEach(m, {}) IN
          /\ f.err = -1
          /\ Range(f.visited) = DOMAIN mLog
          /\ Len(f.visited) = Cardinality(DOMAIN mLog)
    /\ \A w \in Sets :
          LET f == Set_ForEach(SetOf(w), {}) IN
          /\ f.err = -1
          /\ Range(f.visited) = LogOf(w)
          /\ Len(f.visited) = Cardinality(LogOf(w))

\* ForEach has just run to the end over a Set whose array has grown
C5_Witness ==
    /\ r.op = "ForEach" /\ r.a = "s" /\ r.val = -1
    /\ Len(r.seq) > initialCapacity \div 2 /\ 256 \in Range(r.seq)
    /\ Len(s.entries) = 2 * initialCapacity

\* C6. Capacity invariant of a container c: count <= 3*capacity/4 + 1, and
\* capacity is the minimum capacity or count >= capacity/4. It holds of the
\* Map and the Sets after every call, and of the containers Copy, Union,
\* Intersection and Difference return.
CapacityOK(c) ==
    /\ c.size <= (3 * Len(c.entries)) \div 4 + 1
    /\ Len(c.entries) = initialCapacity \/ c.size >= Len(c.entries) \div 4

C6_CapacityInvariant ==
    /\ CapacityOK(m)
    /\ CapacityOK(s)
    /\ CapacityOK(t)
    /\ CapacityOK(r.set)
    /\ CapacityOK(r.map)

\* Union has just returned a Set that grew while the entries were inserted
C6_Witness ==
    /\ r.op = "Union"
    /\ Len(s.entries) = initialCapacity /\ Len(t.entries) = initialCapacity
    /\ Len(r.set.entries) = 2 * initialCapacity

\* C7. No call panics: none indexes a slot array of capacity 0, whether the
\* container is a zero value, was emptied, or is the copy of an empty one.
C7_NoPanic ==
    /\ ~r.panic
    /\ m.size >= 0 /\ s.size >= 0 /\ t.size >= 0
    /\ r.set.size >= 0 /\ r.map.size >= 0

\* Difference of a zero-value Set and an emptied one has just returned
C7_Witness ==
    /\ r.op = "Difference" /\ r.a = "s" /\ r.b = "t"
    /\ s = ZeroSet
    /\ t.size = 0 /\ Len(t.entries) = initialCapacity
    /\ r.set = ZeroSet

\* C8. Equals is exact: a.Equals(b) is true if and only if a and b hold the
\* same keys, whatever calls built them; a Set equals its Copy.
C8_EqualsExact ==
    \A a \in Exercised, b \in Exercised :
        /\ Set_Equals(SetOf(a), SetOf(b)) = Returns(LogOf(a) = LogOf(b))
        /\ Set_Equals(SetOf(a), Set_Copy(SetOf(a))) = Returns(TRUE)
        /\ (r.op = "Equals" /\ r.a = a /\ r.b = b) => r.bool = (LogOf(a) = LogOf(b))

\* Equals has just returned false for two Sets of one size and one hash
C8_Witness ==
    /\ r.op = "Equals" /\ r.a = "s" /\ r.b = "t" /\ ~r.bool
    /\ Set_Size(s) = Set_Size(t) /\ Set_Size(s) > 1
    /\ Set_Hash(s) = Set_Hash(t)
    /\ sLog # tLog

\* the hash of a Set that holds the keys ks: the empty-set hash, and every
\* key's tagged hash xored in
RECURSIVE XorAll(_)
XorAll(ks) ==
    IF ks = {} THEN emptySetHash
    ELSE LET k == CHOOSE x \in ks : TRUE IN
         BitXor(XorAll(ks \ {k}), BitOr(Int_Hash(k), fullBit))

\* C9. Hash depends on the keys a Set holds and on nothing else: it is the
\* value the keys alone determine, so two Sets with the same keys have one
\* hash; an empty Set has the empty-set hash; a Copy has its original's.
C9_HashOfContents ==
    /\ \A w \in Sets :
          /\ Set_Hash(SetOf(w)) = XorAll(LogOf(w))
          /\ LogOf(w) = {} => Set_Hash(SetOf(w)) = emptySetHash
          /\ Set_Hash(Set_Copy(SetOf(w))) = Set_Hash(SetOf(w))
    /\ sLog = tLog => Set_Hash(s) = Set_Hash(t)
    /\ (r.op = "Hash" /\ r.a \in Sets) => r.val = XorAll(LogOf(r.a))

\* Hash has just run on one of two Sets that hold the same keys in arrays of
\* different capacities
C9_Witness ==
    /\ r.op = "Hash"
    /\ sLog = tLog /\ sLog # {}
    /\ Len(s.entries) = 2 * initialCapacity /\ Len(t.entries) = initialCapacity

\* what Contains says of every key
Members(x) == {k \in Keys : Set_Contains(x, k).result}

\* C10. a.Union(b) holds exactly the keys of a and the keys of b; it equals
\* b.Union(a), and a.Union(a) equals a.
C10_UnionExact ==
    r.op = "Union" =>
        /\ Members(r.set) = LogOf(r.a) \cup LogOf(r.b)
        /\ LiveKeys(r.set.entries) = LogOf(r.a) \cup LogOf(r.b)
        /\ Set_Size(r.set) = Cardinality(LogOf(r.a) \cup LogOf(r.b))
        /\ Set_Equals(r.set, Set_Union(SetOf(r.b), SetOf(r.a))) = Returns(TRUE)
        /\ Set_Equals(Set_Union(SetOf(r.b), SetOf(r.a)), r.set) = Returns(TRUE)
        /\ r.a = r.b => Set_Equals(r.set, SetOf(r.a)) = Returns(TRUE)

\* Union of two Sets, neither inside the other, has just returned a Set that
\* grew while the entries were inserted
C10_Witness ==
    /\ r.op = "Union" /\ r.a = "s" /\ r.b = "t"
    /\ 256 \in tLog /\ 8 \in sLog
    /\ Len(s.entries) = initialCapacity /\ Len(t.entries) = initialCapacity
    /\ Len(r.set.entries) = 2 * initialCapacity

\* C11. a.Intersection(b) holds exactly the keys that a and b both hold,
\* empty operands included; it equals b.Intersection(a), and a.Intersection(a)
\* equals a.
C11_IntersectionExact ==
    r.op = "Intersection" =>
        /\ Members(r.set) = LogOf(r.a) \cap LogOf(r.b)
        /\ LiveKeys(r.set.entries) = LogOf(r.a) \cap LogOf(r.b)
        /\ Set_Size(r.set) = Cardinality(LogOf(r.a) \cap LogOf(r.b))
        /\ Set_Equals(r.set, Set_Intersection(SetOf(r.b), SetOf(r.a))) = Returns(TRUE)
        /\ Set_Equals(Set_Intersection(SetOf(r.b), SetOf(r.a)), r.set) = Returns(TRUE)
        /\ r.a = r.b => Set_Equals(r.set, SetOf(r.a)) = Returns(TRUE)

\* Intersection of two Sets, neither inside the other, the first in the
\* longer array, has just returned the keys they share
C11_Witness ==
    /\ r.op = "Intersection" /\ r.a = "s" /\ r.b = "t"
    /\ 256 \in tLog /\ 8 \in sLog
    /\ Len(s.entries) = 2 * initialCapacity /\ Len(t.entries) = initialCapacity
    /\ Set_Size(r.set) > 1

\* C12. a.Difference(b) holds exactly the keys of a that b does not hold,
\* also when the removals from the copy repair clusters or halve the array,
\* and when no key is left.
C12_DifferenceExact ==
    r.op = "Difference" =>
        /\ Members(r.set) = LogOf(r.a) \ LogOf(r.b)
        /\ LiveKeys(r.set.entries) = LogOf(r.a) \ LogOf(r.b)
        /\ Set_Size(r.set) = Cardinality(LogOf(r.a) \ LogOf(r.b))
        /\ r.a = r.b => Set_Size(r.set) = 0

\* Difference has just halved the array of the copy and left some keys
C12_Witness ==
    /\ r.op = "Difference" /\ r.a = "s" /\ r.b = "t"
    /\ 256 \in tLog
    /\ Len(s.entries) = 2 * initialCapacity
    /\ Len(r.set.entries) = initialCapacity
    /\ Set_Size(r.set) > 1

\* C13. a.IsSubset(b) is true if and only if b holds every key of a; the
\* empty Set is a subset of every Set, and every Set of itself.
C13_IsSubsetExact ==
    /\ \A a \in Exercised, b \in Exercised :
          /\ Set_IsSubset(SetOf(a), SetOf(b)) = Returns(LogOf(a) \subseteq LogOf(b))
          /\ Set_IsSubset(ZeroSet, SetOf(b)) = Returns(TRUE)
          /\ Set_IsSubset(SetOf(a), SetOf(a)) = Returns(TRUE)
    /\ (r.op = "IsSubset" /\ r.a \in Sets /\ r.b \in Sets)
          => r.bool = (LogOf(r.a) \subseteq LogOf(r.b))

\* IsSubset has just returned false for a Set of no more keys than the other
C13_Witness ==
    /\ r.op = "IsSubset" /\ r.a = "s" /\ r.b = "t" /\ ~r.bool
    /\ Set_Size(s) > 1 /\ Set_Size(s) <= Set_Size(t)

\* C14. a.IsDisjoint(b) is true if and only if a and b share no key; it is
\* the same both ways round, true when either is empty, and a.IsDisjoint(a)
\* is true only of an empty a.
C14_IsDisjointExact ==
    /\ \A a \in Exercised, b \in Exercised :
          /\ Set_IsDisjoint(SetOf(a), SetOf(b)) = Returns(LogOf(a) \cap LogOf(b) = {})
          /\ Set_IsDisjoint(SetOf(a), SetOf(b)) = Set_IsDisjoint(SetOf(b), SetOf(a))
          /\ Set_IsDisjoint(SetOf(a), ZeroSet) = Returns(TRUE)
          /\ Set_IsDisjoint(ZeroSet, SetOf(a)) = Returns(TRUE)
          /\ Set_IsDisjoint(SetOf(a), SetOf(a)) = Returns(LogOf(a) = {})
    /\ (r.op = "IsDisjoint" /\ r.a \in Sets /\ r.b \in Sets)
          => r.bool = (LogOf(r.a) \cap LogOf(r.b) = {})

\* IsDisjoint has just returned true for two Sets that hold keys, the first
\* in the longer array
C14_Witness ==
    /\ r.op = "IsDisjoint" /\ r.a = "s" /\ r.b = "t" /\ r.bool
    /\ 256 \in tLog /\ Set_Size(s) > 1
    /\ Len(s.entries) = 2 * initialCapacity /\ Len(t.entries) = initialCapacity

\* the keys of the live slots of a slot array, in array order
LiveSeq(entries) ==
    LET live == SelectSeq(entries, LAMBDA e : e.hash1 # 0) IN
    [i \in 1 .. Len(live) |-> live[i].key]

\* what a fail-fast ForEach does on the live keys seq with a visitor that
\* fails on the keys of errKeys: it visits seq up to and including the first
\* key the visitor fails on and returns that key's error, or visits all of seq
\* and returns nil (-1)
FailFast(seq, errKeys) ==
    LET fails == {i \in 1 .. Len(seq) : seq[i] \in errKeys} IN
    IF fails = {} THEN [visited |-> seq, err |-> -1]
    ELSE LET first == CHOOSE i \in fails : \A j \in fails : i <= j IN
         [visited |-> SubSeq(seq, 1, first), err |-> seq[first]]

\* the visitors the claim is tried on, each by the keys it fails on
ErrKeySets == {{}, {0}, {256}, {1, 256}, {2, 8}}

\* what the ForEach call in r did is what a fail-fast ForEach does on x
ForEachReturned(x) ==
    \E errKeys \in {{}, {0}} :
        [visited |-> r.seq, err |-> r.val] = FailFast(LiveSeq(x.entries), errKeys)

\* C16. ForEach is fail-fast: it calls the visitor on the live slots in array
\* order, stops at the first error and returns it, returns nil after all live
\* entries when the visitor never fails, and leaves the container as it was.
C16_ForEachFailFast ==
    /\ [](/\ \A errKeys \in ErrKeySets :
               /\ Map_ForEach(m, errKeys) = FailFast(LiveSeq(m.entries), errKeys)
               /\ \A w \in Sets :
                     Set_ForEach(SetOf(w), errKeys)
                         = FailFast(LiveSeq(SetOf(w).entries), errKeys)
          /\ r.op = "ForEach" =>
                IF r.a \in Sets THEN ForEachReturned(SetOf(r.a)) ELSE ForEachReturned(m))
    /\ [][r'.op = "ForEach" => UNCHANGED << m, mLog, s, sLog, t, tLog >>]_vars

\* ForEach on the Map has just stopped at the error of the visitor, after
\* some keys and before others
C16_Witness ==
    /\ r.op = "ForEach" /\ r.a = "" /\ r.val = 0
    /\ Len(r.seq) > 1 /\ Len(r.seq) < Map_Size(m)

\* what a caller can observe of a Map: Size, and Get of every key
ObservedMap(x) == [size |-> Map_Size(x), get |-> [k \in Keys |-> Map_Get(x, k)]]

\* what a caller can observe of a Set: Size, Contains of every key, and Hash
ObservedSet(x) ==
    [size |-> Set_Size(x), contains |-> [k \in Keys |-> Set_Contains(x, k)],
     hash |-> Set_Hash(x)]

\* the round trip on the Sets: Add, Remove, Add shows what the first Add shows
RoundTripSet ==
    \A w \in Sets : \A k \in Keys :
        LET once == Set_Add(SetOf(w), k) IN
        ObservedSet(Set_Add(Set_Remove(once, k), k)) = ObservedSet(once)

\* the round trip on the Map: Put, Remove, Put shows what the first Put shows
RoundTripMap ==
    \A k \in Keys : \A v \in {1, 2} :
        LET once == Map_Put(m, k, v) IN
        ObservedMap(Map_Put(Map_Remove(once, k), k, v)) = ObservedMap(once)

\* C17. Insert, remove, insert: for any Map or Set and any key k, what can be
\* observed (Size, Get or Contains of every key, the Hash of a Set) after
\* Put(k, v); Remove(k); Put(k, v) is what can be observed after the first
\* Put(k, v) alone.
C17_RoundTrip == RoundTripMap /\ RoundTripSet

\* the exclusive-or of the tagged hashes of the live slots from position i on
RECURSIVE XorSlots(_, _)
XorSlots(entries, i) ==
    IF i > Len(entries) THEN 0
    ELSE BitXor(entries[i].hash1, XorSlots(entries, i + 1))

\* the Sets of a state: s, t and the Set the last call returned
SetsInState == {s, t, r.set}

\* C18 as the specification states it: the stored hash of a Set is the
\* exclusive-or of the tagged hashes of its live slots.
C18_HashIsXorOfSlots ==
    \A x \in SetsInState : x.hash = XorSlots(x.entries, 1)

\* C18, amended. The stored hash of a Set whose slot array is allocated is
\* emptySetHash xored with the tagged hashes of its live slots, and the stored
\* hash of a Set without a slot array (a zero value) is 0; Add, Remove, the
\* repair loop, resize and Copy keep it so.
C18_HashIsSeededXorOfSlots ==
    \A x \in SetsInState :
        x.hash = IF x.entries = << >> THEN 0
                 ELSE BitXor(emptySetHash, XorSlots(x.entries, 1))

\* a Remove has just halved the array of s and left keys in it, and the
\* stored hash is not the xor of the live slots alone
C18_Witness ==
    /\ r.op = "Remove" /\ r.a = "s" /\ r.bool
    /\ r.val = 2 * initialCapacity /\ Len(s.entries) = initialCapacity
    /\ Set_Size(s) > 1
    /\ s.hash # XorSlots(s.entries, 1)

\* the operands of a scanning operation called on the Sets a and b, for every
\* operation and every pair of Sets that hold keys
ScansOf(a, b) ==
    { Set_Equals_operands(a, b), Set_IsDisjoint_operands(a, b),
      Set_Union_operands(a, b), Set_Intersection_operands(a, b),
      Set_Difference_operands(a, b) }

\* C19 as the specification states it: every scanning operation scans the
\* operand of fewer live entries and queries the other.
C19_ScansFewerEntries ==
    \A a \in Exercised, b \in Exercised :
        (Set_Size(SetOf(a)) > 0 /\ Set_Size(SetOf(b)) > 0) =>
            \A o \in ScansOf(SetOf(a), SetOf(b)) : o.scan.size <= o.query.size

\* C19, amended. Equals, IsDisjoint, Union and Intersection scan the operand
\* whose slot array is not the longer one (the receiver when the arrays are
\* of one length) and query the other, whichever holds fewer keys; Union
\* copies the operand it does not scan, so the array of the Union of two Sets
\* that hold keys is at least as long as either's. Difference always scans its argument and removes
\* from a copy of its receiver.
C19_ScansShorterArray ==
    /\ \A a \in Exercised, b \in Exercised :
          LET x == SetOf(a)
              y == SetOf(b)
          IN  /\ \A o \in { Set_Equals_operands(x, y), Set_IsDisjoint_operands(x, y),
                            Set_Union_operands(x, y), Set_Intersection_operands(x, y) } :
                     /\ Len(o.scan.entries) <= Len(o.query.entries)
                     /\ << o.scan, o.query >> \in { << x, y >>, << y, x >> }
                     /\ Len(x.entries) = Len(y.entries) => << o.scan, o.query >> = << x, y >>
              /\ Set_Difference_operands(x, y) = [scan |-> y, query |-> x]
    /\ (r.op = "Union" /\ r.a \in Sets /\ r.b \in Sets
           /\ Set_Size(SetOf(r.a)) > 0 /\ Set_Size(SetOf(r.b)) > 0) =>
          /\ Len(r.set.entries) >= Len(SetOf(r.a).entries)
          /\ Len(r.set.entries) >= Len(SetOf(r.b).entries)

\* Union has just scanned t, which holds more keys than s in a shorter array
C19_Witness ==
    /\ r.op = "Union" /\ r.a = "s" /\ r.b = "t"
    /\ Len(s.entries) = 2 * initialCapacity /\ Len(t.entries) = initialCapacity
    /\ Set_Size(s) < Set_Size(t)
    /\ Set_Union_operands(s, t).scan = t

\* a removal that rebuilds the array ends there: no step follows its "resize"
EndsAtResize(steps) ==
    \A i \in 1 .. Len(steps) : steps[i] = "resize" => i = Len(steps)

\* C20. Shrink takes priority over cluster repair: a Remove that rebuilds the
\* array at half the capacity ends there, and no slot is cleared and put again
\* after the rebuild, in Map.Remove and in Set.Remove.
C20_ShrinkEndsRemove ==
    [][/\ \A k \in Keys : CallMapRemove(k) => EndsAtResize(Map_Remove_steps(m, k))
       /\ \A w \in Sets : \A k \in Keys :
             CallSetRemove(w, k) => EndsAtResize(Set_Remove_steps(SetOf(w), k))]_vars

\* what the caller observes of a kept copy and of its original: the two do
\* not hold the same slot array
NeverAliased ==
    /\ ~Shares("m", "mCopy")
    /\ ~Shares("s", "t")

\* a kept copy, as it is returned, against the original
CopyIsEqual ==
    (r.op = "Copy") =>
        /\ under = "MapCopy" => /\ ObservedMap(mCopy) = ObservedMap(m)
                                /\ Map_Size(mCopy) = Map_Size(m)
        /\ under = "SetCopy" => /\ ObservedSet(t) = ObservedSet(s)
                                /\ Set_Size(t) = Set_Size(s)
                                /\ Set_Hash(t) = Set_Hash(s)

\* a call that changes one of the two leaves the other as it was
OtherUntouched ==
    /\ (under = "MapCopy" /\ r'.op \in {"Put", "Remove"}) =>
           /\ r'.a = "m" => mCopy' = mCopy
           /\ r'.a = "mCopy" => m' = m
    /\ (under = "SetCopy" /\ r'.op \in {"Add", "Remove"}) =>
           /\ r'.a = "s" => t' = t
           /\ r'.a = "t" => s' = s

\* C15. Copy of a Map or Set returns an independent container: as returned it
\* has the keys (and values), the size and, for a Set, the hash of the
\* original; no later Put, Add or Remove on either of the two changes the
\* other; and the two never hold the same slot array.
C15_CopyIsIndependent ==
    /\ [](NeverAliased /\ CopyIsEqual)
    /\ [][OtherUntouched]_vars

\* a Map and a Set were copied with key 0 in, key 0 was then removed from the
\* original within its slot array, and the copy still holds it; or a key was
\* then added to the copy within its slot array, and the original lacks it
C15_Witness ==
    \/ /\ under = "MapCopy" /\ r.op = "Remove" /\ r.a = "m" /\ r.bool
       /\ Len(m.entries) = Len(mCopy.entries) /\ heap["mCopy"] # 0
       /\ Map_Get(mCopy, 0).found /\ ~Map_Get(m, 0).found
    \/ /\ under = "SetCopy" /\ r.op = "Add" /\ r.a = "t" /\ ~r.bool
       /\ Len(s.entries) = Len(t.entries) /\ heap["s"] # 0
       /\ Set_Contains(t, 0).result /\ ~Set_Contains(s, 0).result

\* the keys that some container of the run holds
HeldKeys ==
    LiveKeys(m.entries) \cup LiveKeys(mCopy.entries)
        \cup LiveKeys(s.entries) \cup LiveKeys(t.entries)

\* C24. The integer wrappers hash their whole value: any two different keys
\* that the containers hold (they differ in some byte) have different byte
\* sequences written to the hasher by hash64bits, by hash32bits and by
\* hash16bits.
C24_HashesWholeValue ==
    \A a \in HeldKeys : \A b \in HeldKeys :
        a # b => /\ hash64bits_bytes(a) # hash64bits_bytes(b)
                 /\ hash32bits_bytes(a) # hash32bits_bytes(b)
                 /\ hash16bits_bytes(a) # hash16bits_bytes(b)

\* C23. Equals, IsSubset, IsDisjoint, Union, Intersection and Difference leave
\* both operands as they were: slot array, size and hash field.
C23_OperandsUnchanged ==
    [][(r'.op \in {"Equals", "IsSubset", "IsDisjoint",
                   "Union", "Intersection", "Difference"})
          => (s' = s /\ t' = t)]_vars

\* s.Union(t) and s.Difference(t) returned, with s the Set of the longer
\* array (Union swapped its operands and wrote its entries into a copy of s),
\* and the result is not s; s and t are as their logs say
C23_Witness ==
    /\ r.op \in {"Union", "Difference"} /\ r.a = "s" /\ r.b = "t"
    /\ Len(s.entries) > Len(t.entries) /\ Set_Size(t) > 0
    /\ Members(r.set) # Members(s)
    /\ Members(s) = sLog /\ Members(t) = tLog

\* the slots on the cyclic path from the home slot of the entry in slot i
\* (its tagged hash masked by the capacity) up to slot i, as indexes from 1
ProbePath(entries, i) ==
    LET home == BitAnd(entries[i].hash1, Len(entries) - 1)
        steps == ((i - 1) - home + Len(entries)) % Len(entries)
    IN  {((home + d) % Len(entries)) + 1 : d \in 0 .. steps}

\* every live slot is reached from its home slot over non-empty slots, and no
\* key is in two slots
ProbeChainOK(entries) ==
    /\ \A i \in LiveSlots(entries) :
           \A j \in ProbePath(entries, i) : entries[j].hash1 # 0
    /\ \A i \in LiveSlots(entries) : \A j \in LiveSlots(entries) :
           Int_Equals(entries[i].key, entries[j].key) => i = j

\* C22. Probe-chain invariant: after every call, in the Map, its copy, the
\* Sets and any container a call returned, every live slot is reached from
\* the home slot of its tagged hash over non-empty slots, and no key occupies
\* two slots.
C22_ProbeChain ==
    /\ ProbeChainOK(m.entries) /\ ProbeChainOK(mCopy.entries)
    /\ ProbeChainOK(s.entries) /\ ProbeChainOK(t.entries)
    /\ ProbeChainOK(r.set.entries) /\ ProbeChainOK(r.map.entries)

\* Remove of a live key has returned with the array at its first capacity,
\* and the Map holds a cluster that wraps around the end of the array: the entry in
\* the first slot has its home in the last slot or before it
C22_Witness ==
    /\ under = "MapCopy" /\ r.op = "Remove" /\ r.a = "m" /\ r.bool
    /\ Len(m.entries) = initialCapacity /\ m.entries[1].hash1 # 0
    /\ BitAnd(m.entries[1].hash1, Len(m.entries) - 1) # 0
    /\ m.entries[Len(m.entries)].hash1 # 0

\* an allocated slot array has an EMPTY slot, and the probing loop for any
\* key ends within Len(entries) slots
ProbesEnd(entries) ==
    Len(entries) > 0 =>
        /\ \E i \in 1 .. Len(entries) : entries[i].hash1 = 0
        /\ \A k \in Keys :
               LET hash1 == Hash1OfKey[seed][k] IN
               probes(entries, hash1, k, BitAnd(hash1, Len(entries) - 1), 1)
                   <= Len(entries)

\* a resize puts every entry within cap slots read and without a resize of
\* its own
ResizeEnds(trace) ==
    \A n \in 1 .. Len(trace) :
        trace[n].probes <= trace[n].cap /\ trace[n].after = trace[n].cap

\* the inner loop of a removal makes at most capacity passes, and each puts
\* its entry within cap slots read, without a resize, into a slot on the path
\* from the home slot of the entry to the slot it was in: never beyond it
RepairEnds(trace) ==
    \A n \in 1 .. Len(trace) :
        LET p == trace[n] IN
        /\ n <= p.cap /\ p.to # -1
        /\ p.probes <= p.cap /\ p.after = p.cap
        /\ (p.to - p.home + p.cap) % p.cap <= (p.from - p.home + p.cap) % p.cap

\* C21. Every call ends: every slot array has an EMPTY slot, so the probing
\* loop of Get, Contains, Put, Add and Remove for any key reads at most
\* capacity slots; every Put, Add and Remove the caller may make next has a
\* resize that never resizes again and an inner repair loop of at most
\* capacity passes, whose entries never land beyond the slot under repair.
C21_LoopsEnd ==
    /\ ProbesEnd(m.entries) /\ ProbesEnd(mCopy.entries)
    /\ ProbesEnd(s.entries) /\ ProbesEnd(t.entries)
    /\ ProbesEnd(r.set.entries) /\ ProbesEnd(r.map.entries)
    /\ \A w \in Maps : \A k \in Keys :
          /\ (k \notin DOMAIN MapLogOf(w) /\ InsertOK(w, k, DOMAIN MapLogOf(w))) =>
                 \A v \in ValuesFor(k) : ResizeEnds(Map_Put_resize_trace(MapOf(w), k, v))
          /\ (k \in DOMAIN MapLogOf(w) /\ RemoveOK(w, k, DOMAIN MapLogOf(w))) =>
                 /\ ResizeEnds(Map_Remove_resize_trace(MapOf(w), k))
                 /\ RepairEnds(Map_Remove_trace(MapOf(w), k))
    /\ \A w \in Sets : \A k \in Keys :
          /\ (k \notin LogOf(w) /\ InsertOK(w, k, LogOf(w))) =>
                 ResizeEnds(Set_Add_resize_trace(SetOf(w), k))
          /\ (k \in LogOf(w) /\ RemoveOK(w, k, LogOf(w))) =>
                 /\ ResizeEnds(Set_Remove_resize_trace(SetOf(w), k))
                 /\ RepairEnds(Set_Remove_trace(SetOf(w), k))

\* the Map is about to double its array on the next Put, and holds a cluster
\* of three entries or more whose first key the caller may remove: the inner
\* loop of that Remove makes two passes or more
C21_Witness ==
    /\ under = "MapCopy" /\ Idle
    /\ \E k \in Keys : Len(Map_Put_resize_trace(m, k, 1)) > (3 * initialCapacity) \div 4
    /\ Len(Map_Remove_trace(m, 0)) >= 2
====
